---- MODULE Spec2Model ----
(***************************************************************************)
(* Verification model of the euler linear-algebra crate: the matrix types  *)
(* Mat2/Mat3/Mat4 (and their D-variants, which share the same macro code), *)
(* the vector and quaternion array conversions, and the cgmath routines    *)
(* they delegate to.                                                       *)
(*                                                                         *)
(* In the matrix, conversion and quaternion machines scalars (f32 / f64)   *)
(* are exact: rationals <<num, den>> in lowest terms and, for the sines    *)
(* and cosines of the quaternion machine, sums with a multiple of sqrt(2). *)
(* Rounding, overflow and underflow of IEEE-754 arithmetic are outside     *)
(* those machines, so "approximately equal" properties are checked there   *)
(* as exact equalities of exact arithmetic.  The float machine (precision  *)
(* conversions, length, normalize) computes in scaled-down IEEE-754        *)
(* formats with rounding to nearest, overflow to infinity, gradual         *)
(* underflow and NaN.                                                      *)
(***************************************************************************)
EXTENDS Integers, Sequences, FiniteSets, TLC

VARIABLES pc, dim, ctor, cargs, a, b, v, op, res,
          cpc, cty, carr, cobj, cout,
          fpc, fprec, fdim, fin, fmid, fout,
          qpc, qctor, qargs, qval, qvec, qrot, trs, tmat,
          vpc, vop, vargs, vres

vars == <<pc, dim, ctor, cargs, a, b, v, op, res, cpc, cty, carr, cobj, cout,
          fpc, fprec, fdim, fin, fmid, fout,
          qpc, qctor, qargs, qval, qvec, qrot, trs, tmat,
          vpc, vop, vargs, vres>>
matVars == <<pc, dim, ctor, cargs, a, b, v, op, res>>
convVars == <<cpc, cty, carr, cobj, cout>>
floatVars == <<fpc, fprec, fdim, fin, fmid, fout>>
quatVars == <<qpc, qctor, qargs, qval, qvec, qrot, trs, tmat>>
vecVars == <<vpc, vop, vargs, vres>>

(***************************************************************************)
(* Bounds of the model.                                                    *)
(***************************************************************************)
MaxAbs == 1
MaxVec == 1
MaxBand == 1
MaxRamp == 2
MantBits == 3
MaxTurn == 2
MaxOps == 2

(***************************************************************************)
(* Scalar arithmetic: exact rationals in lowest terms, positive            *)
(* denominator, extended by sqrt(2).                                       *)
(***************************************************************************)
Abs(i) == IF i < 0 THEN -i ELSE i

RECURSIVE Gcd(_, _)
Gcd(i, j) == IF j = 0 THEN i ELSE Gcd(j, i % j)

Rat(n, d) ==
    LET g == Gcd(Abs(n), Abs(d))
        s == IF d < 0 THEN -1 ELSE 1
    IN  <<(s * n) \div g, (s * d) \div g>>

R(i) == <<i, 1>>
Zero == R(0)
One == R(1)

\* A scalar that holds sqrt(2), as the sine and cosine of an odd multiple of
\* PI/4 do: <<n, m, d>> is (n + m * sqrt(2)) / d in lowest terms, m # 0.  A
\* value without sqrt(2) is the rational <<n, d>>.
Surd(n, m, d) ==
    LET g == Gcd(Gcd(Abs(n), Abs(m)), Abs(d))
        s == IF d < 0 THEN -1 ELSE 1
    IN  IF m = 0 THEN Rat(n, d)
        ELSE <<(s * n) \div g, (s * m) \div g, (s * d) \div g>>

IsRat(p) == Len(p) = 2

Lift(p) == IF IsRat(p) THEN <<p[1], 0, p[2]>> ELSE p

\* 1 / p of a nonzero p: the conjugate over the norm n^2 - 2 m^2.
SurdInv(p) ==
    Surd(p[3] * p[1], -(p[3] * p[2]), p[1] * p[1] - 2 * p[2] * p[2])

SurdMul(p, q) ==
    Surd(p[1] * q[1] + 2 * p[2] * q[2], p[1] * q[2] + p[2] * q[1],
         p[3] * q[3])

RAdd(p, q) ==
    IF IsRat(p) /\ IsRat(q)
    THEN Rat(p[1] * q[2] + q[1] * p[2], p[2] * q[2])
    ELSE LET x == Lift(p)
             y == Lift(q)
         IN  Surd(x[1] * y[3] + y[1] * x[3], x[2] * y[3] + y[2] * x[3],
                  x[3] * y[3])

RNeg(p) == IF IsRat(p) THEN <<-p[1], p[2]>> ELSE <<-p[1], -p[2], p[3]>>

RSub(p, q) ==
    IF IsRat(p) /\ IsRat(q)
    THEN Rat(p[1] * q[2] - q[1] * p[2], p[2] * q[2])
    ELSE RAdd(p, RNeg(q))

RMul(p, q) ==
    IF IsRat(p) /\ IsRat(q) THEN Rat(p[1] * q[1], p[2] * q[2])
    ELSE SurdMul(Lift(p), Lift(q))

\* Only applied to a nonzero divisor (cgmath guards the division by det).
RDiv(p, q) ==
    IF IsRat(p) /\ IsRat(q) THEN Rat(p[1] * q[2], p[2] * q[1])
    ELSE SurdMul(Lift(p), Lift(SurdInv(Lift(q))))

RECURSIVE RSum(_)
RSum(s) == IF s = <<>> THEN Zero ELSE RAdd(Head(s), RSum(Tail(s)))

(***************************************************************************)
(* Result values of the operations.                                        *)
(***************************************************************************)
Unit == [kind |-> "Unit", val |-> <<>>]
None == [kind |-> "None", val |-> <<>>]
Some(x) == [kind |-> "Some", val |-> x]
Panic == [kind |-> "Panic", val |-> <<>>]
Value(k, x) == [kind |-> k, val |-> x]

(***************************************************************************)
(* Struct layouts.  The structs are #[repr(C)], so the declared field      *)
(* order is the memory order that mem::transmute reinterprets.             *)
(***************************************************************************)
Dims == {2, 3, 4}

\* The array [S; n] holding f[1], .., f[n], as a tuple.
Array(n, f) == SubSeq(f, 1, n)

\* The array [[S; n]; n] holding the inner arrays f[1], .., f[n].
Array2(n, f) == Array(n, [i \in 1..n |-> Array(n, f[i])])

FieldName ==
    << <<"m00", "m01", "m02", "m03">>,
       <<"m10", "m11", "m12", "m13">>,
       <<"m20", "m21", "m22", "m23">>,
       <<"m30", "m31", "m32", "m33">> >>

\* Declared field order of Mat2 / Mat3 / Mat4.
MatFields(n) ==
    [k \in 1..(n * n) |-> FieldName[((k - 1) \div n) + 1][((k - 1) % n) + 1]]

MatFieldSet(n) == {MatFields(n)[k] : k \in 1..(n * n)}

\* Parameter order of Mat2::new / Mat3::new / Mat4::new.
NewParams(n) ==
    [k \in 1..(n * n) |-> FieldName[((k - 1) \div n) + 1][((k - 1) % n) + 1]]

\* Position of name f in the sequence of names s.
IndexOf(s, f) == CHOOSE k \in 1..Len(s) : s[k] = f

\* Full constructor: each parameter initialises the field of its own name.
Mat_new(n, args) ==
    [f \in MatFieldSet(n) |-> args[IndexOf(NewParams(n), f)]]

Mat2_tridiagonal(lo, di, up) == Mat_new(2, <<di, up, lo, di>>)

Mat3_tridiagonal(lo, di, up) ==
    Mat_new(3, <<di, up, Zero, lo, di, up, Zero, lo, di>>)

Mat4_tridiagonal(lo, di, up) ==
    Mat_new(4, <<di, up, Zero, Zero, lo, di, up, Zero,
                 Zero, lo, di, up, Zero, Zero, lo, di>>)

Mat_tridiagonal(n, lo, di, up) ==
    CASE n = 2 -> Mat2_tridiagonal(lo, di, up)
      [] n = 3 -> Mat3_tridiagonal(lo, di, up)
      [] n = 4 -> Mat4_tridiagonal(lo, di, up)

Mat_diagonal(n, di) == Mat_tridiagonal(n, Zero, di, Zero)

\* Mutant: the identity built with a zero diagonal.
Mat_identity_zero(n) == Mat_diagonal(n, Zero)

Mat_identity(n) == Mat_diagonal(n, One)

\* AsRef<$marray>: the struct's memory read as [[S; n]; n].
Mat_as_ref(n, s) ==
    Array2(n, [i \in 1..n |-> [j \in 1..n |-> s[MatFields(n)[(i - 1) * n + j]]]])

\* From<$marray>: the array's memory read as the struct.
Mat_from(n, array) ==
    [f \in MatFieldSet(n) |->
        LET k == IndexOf(MatFields(n), f)
        IN  array[((k - 1) \div n) + 1][((k - 1) % n) + 1]]

\* Into<$marray>: the struct's memory moved out as [[S; n]; n].
Mat_into(n, s) ==
    Array2(n, [i \in 1..n |-> [j \in 1..n |-> s[MatFields(n)[(i - 1) * n + j]]]])

VecFieldName == <<"x", "y", "z", "w">>

\* Declared field order of Vec2 / Vec3 / Vec4.
VecFields(n) == SubSeq(VecFieldName, 1, n)

VecFieldSet(n) == {VecFields(n)[k] : k \in 1..n}

Vec_new(n, args) == [f \in VecFieldSet(n) |-> args[IndexOf(VecFields(n), f)]]

Vec_zero(n) == [f \in VecFieldSet(n) |-> Zero]

Vec_as_ref(n, s) == Array(n, [i \in 1..n |-> s[VecFields(n)[i]]])

Vec_from(n, array) ==
    [f \in VecFieldSet(n) |-> array[IndexOf(VecFields(n), f)]]

Vec_into(n, s) == Array(n, [i \in 1..n |-> s[VecFields(n)[i]]])

\* Declared field order of Quat / DQuat.
QuatFields == <<"x", "y", "z", "s">>

Quat_new(x, y, z, s) == [f \in {"x", "y", "z", "s"} |->
    CASE f = "x" -> x [] f = "y" -> y [] f = "z" -> z [] f = "s" -> s]

Quat_identity == Quat_new(Zero, Zero, Zero, One)

\* From<$array>: Self::new(q[0], q[1], q[2], q[3])
Quat_from(q) == Quat_new(q[1], q[2], q[3], q[4])

\* Mutant: the scalar part is written first, as cgmath orders it.
Quat_into_scalar_first(q) == <<q.s, q.x, q.y, q.z>>

\* Into<$array>: [self.x, self.y, self.z, self.s]
Quat_into(q) == <<q.x, q.y, q.z, q.s>>

(***************************************************************************)
(* cgmath.  A cgmath matrix is a sequence of COLUMN vectors (Matrix2 is    *)
(* {x, y}, Matrix3 {x, y, z}, Matrix4 {x, y, z, w}); m[c][r] is the entry  *)
(* in column c, row r.                                                     *)
(***************************************************************************)
\* &[[S; n]; n] -> &MatrixN: inner array i becomes column i.
Cg_matrix(n, array) ==
    Array2(n, [c \in 1..n |-> [r \in 1..n |-> array[c][r]]])

\* MatrixN -> [[S; n]; n]: column c becomes inner array c.
Cg_matrix_array(n, m) ==
    Array2(n, [i \in 1..n |-> [j \in 1..n |-> m[i][j]]])

\* &[S; n] -> &VectorN and back.
Cg_vector(n, array) == Array(n, [i \in 1..n |-> array[i]])
Cg_vector_array(n, x) == Array(n, [i \in 1..n |-> x[i]])

Cg_identity(n) ==
    Array2(n, [c \in 1..n |-> [r \in 1..n |-> IF c = r THEN One ELSE Zero]])

\* Matrix * column vector: the linear combination of the columns.
Cg_mul_vec(n, m, x) ==
    Array(n, [r \in 1..n |-> RSum([c \in 1..n |-> RMul(m[c][r], x[c])])])

\* Matrix * matrix: column c of the product is lhs * (column c of rhs).
Cg_mul(n, lhs, rhs) ==
    Array(n, [c \in 1..n |-> Cg_mul_vec(n, lhs, rhs[c])])

Cg_transpose(n, m) ==
    Array2(n, [c \in 1..n |-> [r \in 1..n |-> m[r][c]]])

\* m without column c and row r.
Cg_minor(n, m, c, r) ==
    Array2(n - 1, [cc \in 1..(n - 1) |-> [rr \in 1..(n - 1) |->
        m[IF cc < c THEN cc ELSE cc + 1][IF rr < r THEN rr ELSE rr + 1]]])

Sign(k) == IF k % 2 = 0 THEN One ELSE RNeg(One)

\* Cofactor expansion along the first row.
RECURSIVE Cg_determinant(_, _)
Cg_determinant(n, m) ==
    IF n = 1 THEN m[1][1]
    ELSE RSum([c \in 1..n |->
            RMul(RMul(Sign(c + 1), m[c][1]),
                 Cg_determinant(n - 1, Cg_minor(n, m, c, 1)))])

\* SquareMatrix::invert: None when the determinant is zero, otherwise the
\* adjugate divided by the determinant.
Cg_invert(n, m) ==
    LET det == Cg_determinant(n, m)
    IN  IF det = Zero THEN None
        ELSE Some(Array2(n, [c \in 1..n |-> [r \in 1..n |->
                RDiv(RMul(Sign(c + r),
                          Cg_determinant(n - 1, Cg_minor(n, m, r, c))),
                     det)]]))

(***************************************************************************)
(* impl_matrix!: every operation views the struct as an array, converts    *)
(* the array reference into the cgmath type, delegates, and converts the   *)
(* result back through the array.                                          *)
(***************************************************************************)
\* let a: &$minner = self.as_ref().into();
Mat_inner(n, s) == Cg_matrix(n, Mat_as_ref(n, s))

\* let b: &$vinner = rhs.as_ref().into();
Vec_inner(n, x) == Cg_vector(n, Vec_as_ref(n, x))

Mat_determinant(n, s) == Cg_determinant(n, Mat_inner(n, s))

\* Mutant: an inverse is refused unless the determinant is positive.
Mat_try_invert_positive(n, s) ==
    LET inv == Cg_invert(n, Mat_inner(n, s))
    IN  IF inv.kind = "None" \/ Cg_determinant(n, Mat_inner(n, s))[1] < 0
        THEN None
        ELSE Some(Mat_from(n, Cg_matrix_array(n, inv.val)))

\* Mutant: the inverse is written back row by row instead of column by
\* column.
Mat_try_invert_rows(n, s) ==
    LET inv == Cg_invert(n, Mat_inner(n, s))
    IN  IF inv.kind = "None" THEN None
        ELSE Some(Mat_from(n, Cg_matrix_array(n, Cg_transpose(n, inv.val))))

\* Mutant: the adjugate is returned, the division by the determinant lost.
Mat_try_invert_adjugate(n, s) ==
    LET inv == Cg_invert(n, Mat_inner(n, s))
        det == Cg_determinant(n, Mat_inner(n, s))
    IN  IF inv.kind = "None" THEN None
        ELSE Some(Mat_from(n, Cg_matrix_array(n,
                Array2(n, [c \in 1..n |-> [r \in 1..n |->
                    RMul(inv.val[c][r], det)]]))))

Mat_try_invert(n, s) ==
    LET inv == Cg_invert(n, Mat_inner(n, s))
    IN  IF inv.kind = "None" THEN None
        ELSE Some(Mat_from(n, Cg_matrix_array(n, inv.val)))

\* Mutant: unwrap_or(identity) instead of unwrap.
Mat_inverse_or_identity(n, s) ==
    LET r == Mat_try_invert(n, s)
    IN  IF r.kind = "None" THEN Value("Mat", Mat_identity(n))
        ELSE Value("Mat", r.val)

\* self.try_invert().unwrap()
Mat_inverse(n, s) ==
    LET r == Mat_try_invert(n, s)
    IN  IF r.kind = "None" THEN Panic ELSE Value("Mat", r.val)

\* Mutant: the copy is returned without transpose_self().
Mat_transpose_copy(n, s) ==
    Mat_from(n, Cg_matrix_array(n, Mat_inner(n, s)))

Mat_transpose(n, s) ==
    Mat_from(n, Cg_matrix_array(n, Cg_transpose(n, Mat_inner(n, s))))

\* From<Mat3> for Mat2
Mat2_from_mat3(arg) == Mat_new(2, <<arg.m00, arg.m01, arg.m10, arg.m11>>)

\* Mutant: one of the added entries off the diagonal is 1.
Mat3_from_mat2_shear(arg) ==
    Mat_new(3, <<arg.m00, arg.m01, Zero, arg.m10, arg.m11, Zero,
                 One, Zero, One>>)

\* From<Mat2> for Mat3
Mat3_from_mat2(arg) ==
    Mat_new(3, <<arg.m00, arg.m01, Zero, arg.m10, arg.m11, Zero,
                 Zero, Zero, One>>)

\* From<Mat4> for Mat3
Mat3_from_mat4(arg) ==
    Mat_new(3, <<arg.m00, arg.m01, arg.m02, arg.m10, arg.m11, arg.m12,
                 arg.m20, arg.m21, arg.m22>>)

\* Mutant: the added diagonal entry is zero.
Mat4_from_mat3_zero(arg) ==
    Mat_new(4, <<arg.m00, arg.m01, arg.m02, Zero,
                 arg.m10, arg.m11, arg.m12, Zero,
                 arg.m20, arg.m21, arg.m22, Zero,
                 Zero, Zero, Zero, Zero>>)

\* From<Mat3> for Mat4
Mat4_from_mat3(arg) ==
    Mat_new(4, <<arg.m00, arg.m01, arg.m02, Zero,
                 arg.m10, arg.m11, arg.m12, Zero,
                 arg.m20, arg.m21, arg.m22, Zero,
                 Zero, Zero, Zero, One>>)

\* From<Mat4> for Mat2: Mat2::from(Mat3::from(arg))
Mat2_from_mat4(arg) == Mat2_from_mat3(Mat3_from_mat4(arg))

\* From<Mat2> for Mat4: Mat4::from(Mat3::from(arg))
Mat4_from_mat2(arg) == Mat4_from_mat3(Mat3_from_mat2(arg))

\* MatN::from(arg) of a matrix arg of another size m.
Mat_from_mat(n, m, arg) ==
    CASE n = 2 /\ m = 3 -> Mat2_from_mat3(arg)
      [] n = 2 /\ m = 4 -> Mat2_from_mat4(arg)
      [] n = 3 /\ m = 2 -> Mat3_from_mat2(arg)
      [] n = 3 /\ m = 4 -> Mat3_from_mat4(arg)
      [] n = 4 /\ m = 2 -> Mat4_from_mat2(arg)
      [] n = 4 /\ m = 3 -> Mat4_from_mat3(arg)

\* Mutant: the struct is read row by row (the matrix is transposed first).
Mat_mul_vec_rows(n, s, rhs) ==
    Vec_from(n, Cg_vector_array(n,
        Cg_mul_vec(n, Cg_transpose(n, Mat_inner(n, s)), Vec_inner(n, rhs))))

\* Mul<$vec> for $self
Mat_mul_vec(n, s, rhs) ==
    Vec_from(n, Cg_vector_array(n,
        Cg_mul_vec(n, Mat_inner(n, s), Vec_inner(n, rhs))))

\* Mutant: the operands are multiplied in the opposite order.
Mat_mul_swapped(n, s, rhs) ==
    Mat_from(n, Cg_matrix_array(n,
        Cg_mul(n, Mat_inner(n, rhs), Mat_inner(n, s))))

\* Mul<$self> for $self
Mat_mul(n, s, rhs) ==
    Mat_from(n, Cg_matrix_array(n,
        Cg_mul(n, Mat_inner(n, s), Mat_inner(n, rhs))))

(***************************************************************************)
(* The tuple-wrapped variants (mat2.rs, mat3.rs, mat4.rs): the struct      *)
(* holds the cgmath matrix itself.                                         *)
(***************************************************************************)
Wrapped_identity(n) == Cg_identity(n)

\* From<[[f32; n]; n]>: Mat(m.into())
Wrapped_from(n, array) == Cg_matrix(n, array)

\* Into<[[f32; n]; n]>: self.0.into()
Wrapped_into(n, w) == Cg_matrix_array(n, w)

\* self.0.invert().map(Mat)
Wrapped_try_invert(n, w) == Cg_invert(n, w)

\* self.try_invert().unwrap()
Wrapped_invert(n, w) ==
    LET r == Wrapped_try_invert(n, w)
    IN  IF r.kind = "None" THEN Panic ELSE Value("Mat", r.val)

\* self.0 * cgmath::Vector::new(rhs.x, ..), rebuilt with vec!(v.x, ..)
Wrapped_mul_vec(n, w, rhs) ==
    LET x == Cg_mul_vec(n, w, [i \in 1..n |-> rhs[VecFieldName[i]]])
    IN  Vec_new(n, [i \in 1..n |-> x[i]])

(***************************************************************************)
(* IEEE-754 arithmetic of the float machine.  A value is a finite rational *)
(* <<num, den>>, or <<1, 0>> (+inf), <<-1, 0>> (-inf), <<0, 0>> (NaN); the *)
(* sign of zero is not modelled.  A format has p significand bits and the  *)
(* quantum exponents qmin..qmax: its finite values are m * 2^q with        *)
(* 0 <= m < 2^p (the values with q = qmin and m < 2^(p-1) are the          *)
(* subnormals).  F32 and F64 are f32 and f64 scaled down to MantBits and   *)
(* MantBits + 2 significand bits.                                          *)
(***************************************************************************)
PosInf == <<1, 0>>
NegInf == <<-1, 0>>
NaN == <<0, 0>>

F32 == [p |-> MantBits, qmin |-> -(2 * MantBits + 1), qmax |-> MantBits]
F64 == [p |-> MantBits + 2, qmin |-> -(2 * MantBits + 2),
        qmax |-> MantBits + 1]

IsFinite(x) == x[2] # 0
Sgn(x) == IF x[1] < 0 THEN -1 ELSE 1
Inf(sg) == <<sg, 0>>

Pow2(k) == IF k >= 0 THEN <<2 ^ k, 1>> ELSE <<1, 2 ^ (-k)>>
RLess(x, y) == x[1] * y[2] < y[1] * x[2]
RLeq(x, y) == x[1] * y[2] <= y[1] * x[2]
RAbs(x) == <<Abs(x[1]), x[2]>>

\* The least element of a non-empty set of integers.
Least(S) == CHOOSE q \in S : \A r \in S : q <= r

\* The integer nearest to the rational x >= 0, ties to the even integer.
RoundHalfEven(x) ==
    LET f == x[1] \div x[2]
        r == 2 * (x[1] % x[2])
    IN  IF r < x[2] THEN f
        ELSE IF r > x[2] THEN f + 1
        ELSE IF f % 2 = 0 THEN f ELSE f + 1

\* The integer square root of k >= 0.
ISqrt(k) == CHOOSE r \in 0..k : r * r <= k /\ k < (r + 1) * (r + 1)

\* Round to nearest, ties to even, of the finite rational x into fmt:
\* infinity above the largest finite value, gradual underflow to zero.
FRound(fmt, x) ==
    IF x[1] = 0 THEN Zero
    ELSE LET mag == RAbs(x)
             qs == {q \in fmt.qmin..fmt.qmax : RLess(mag, Pow2(fmt.p + q))}
         IN  IF qs = {} THEN Inf(Sgn(x))
             ELSE LET q == Least(qs)
                      m == RoundHalfEven(RDiv(mag, Pow2(q)))
                  IN  IF m = 2 ^ fmt.p /\ q = fmt.qmax THEN Inf(Sgn(x))
                      ELSE RMul(R(Sgn(x) * m), Pow2(q))

\* `x as f32` / `x as f64`
FCast(fmt, x) == IF IsFinite(x) THEN FRound(fmt, x) ELSE x

FAdd(fmt, x, y) ==
    IF x = NaN \/ y = NaN THEN NaN
    ELSE IF ~IsFinite(x) /\ ~IsFinite(y) THEN (IF x = y THEN x ELSE NaN)
    ELSE IF ~IsFinite(x) THEN x
    ELSE IF ~IsFinite(y) THEN y
    ELSE FRound(fmt, RAdd(x, y))

FMul(fmt, x, y) ==
    IF x = NaN \/ y = NaN THEN NaN
    ELSE IF ~IsFinite(x) \/ ~IsFinite(y)
         THEN (IF x = Zero \/ y = Zero THEN NaN ELSE Inf(Sgn(x) * Sgn(y)))
    ELSE FRound(fmt, RMul(x, y))

FDiv(fmt, x, y) ==
    IF x = NaN \/ y = NaN THEN NaN
    ELSE IF ~IsFinite(x) /\ ~IsFinite(y) THEN NaN
    ELSE IF ~IsFinite(x) THEN Inf(Sgn(x) * Sgn(y))
    ELSE IF ~IsFinite(y) THEN Zero
    ELSE IF y = Zero THEN (IF x = Zero THEN NaN ELSE Inf(Sgn(x)))
    ELSE FRound(fmt, RDiv(x, y))

\* Correctly rounded square root.
FSqrt(fmt, x) ==
    IF x = NaN \/ x[1] < 0 THEN NaN
    ELSE IF ~IsFinite(x) \/ x = Zero THEN x
    ELSE LET q == Least({k \in fmt.qmin..fmt.qmax :
                            RLess(x, Pow2(2 * (fmt.p + k)))})
             sq == RDiv(x, Pow2(2 * q))
             r == ISqrt(sq[1] \div sq[2])
             lo == R((2 * r + 1) * (2 * r + 1))
             hi == RMul(R(4), sq)
             m == IF RLess(hi, lo) THEN r
                  ELSE IF RLess(lo, hi) THEN r + 1
                  ELSE IF r % 2 = 0 THEN r ELSE r + 1
         IN  RMul(R(m), Pow2(q))

(***************************************************************************)
(* Vectors in floating point (vec.rs, vec2.rs, vec3.rs, vec4.rs) and the   *)
(* cgmath InnerSpace routines they delegate to.                            *)
(***************************************************************************)
\* The sum s[1] + s[2] + .. + s[k], added left to right.
RECURSIVE FSum(_, _, _)
FSum(fmt, s, k) ==
    IF k = 1 THEN s[1] ELSE FAdd(fmt, FSum(fmt, s, k - 1), s[k])

\* InnerSpace::dot: the sum of the element-wise products.
Cg_dot(fmt, n, x, y) ==
    FSum(fmt, Array(n, [i \in 1..n |-> FMul(fmt, x[i], y[i])]), n)

\* InnerSpace::magnitude2 and magnitude: dot(self, self) and its sqrt().
Cg_magnitude2(fmt, n, x) == Cg_dot(fmt, n, x, x)
Cg_magnitude(fmt, n, x) == FSqrt(fmt, Cg_magnitude2(fmt, n, x))

\* Vector * scalar and Vector / scalar, element by element.
Cg_vec_mul(fmt, n, x, k) == Array(n, [i \in 1..n |-> FMul(fmt, x[i], k)])
Cg_vec_div(fmt, n, x, k) == Array(n, [i \in 1..n |-> FDiv(fmt, x[i], k)])

\* Mutant: the vector is scaled by its length instead of the reciprocal.
Cg_normalize_to_scaled(fmt, n, x, magnitude) ==
    Cg_vec_mul(fmt, n, x, FMul(fmt, magnitude, Cg_magnitude(fmt, n, x)))

\* InnerSpace::normalize_to: self * (magnitude / self.magnitude())
Cg_normalize_to(fmt, n, x, magnitude) ==
    Cg_vec_mul(fmt, n, x, FDiv(fmt, magnitude, Cg_magnitude(fmt, n, x)))

\* Mutant: a vector of length zero is returned as it is.
Cg_normalize_guarded(fmt, n, x) ==
    IF Cg_magnitude(fmt, n, x) = Zero THEN x
    ELSE Cg_normalize_to(fmt, n, x, One)

\* InnerSpace::normalize: self.normalize_to(one)
Cg_normalize(fmt, n, x) == Cg_normalize_to(fmt, n, x, One)

\* impl_vector!: length, squared_length, normalize, Div<$base>
Vec_length(fmt, n, s) == Cg_magnitude(fmt, n, Vec_inner(n, s))

Vec_squared_length(fmt, n, s) == Cg_magnitude2(fmt, n, Vec_inner(n, s))

Vec_normalize(fmt, n, s) ==
    Vec_from(n, Cg_vector_array(n, Cg_normalize(fmt, n, Vec_inner(n, s))))

Vec_div(fmt, n, s, arg) ==
    Vec_from(n, Cg_vector_array(n, Cg_vec_div(fmt, n, Vec_inner(n, s), arg)))

\* ApproxEq::default_epsilon / default_max_relative: the machine epsilon.
Epsilon(fmt) == Pow2(1 - fmt.p)

\* ApproxEq::relative_eq of two scalars.
Relative_eq(fmt, x, y, epsilon, max_relative) ==
    IF x = NaN \/ y = NaN THEN FALSE
    ELSE IF x = y THEN TRUE
    ELSE IF ~IsFinite(x) \/ ~IsFinite(y) THEN FALSE
    ELSE LET abs_diff == RAbs(FAdd(fmt, x, RNeg(y)))
             largest == IF RLess(RAbs(x), RAbs(y)) THEN RAbs(y) ELSE RAbs(x)
         IN  \/ RLeq(abs_diff, epsilon)
             \/ RLeq(abs_diff, FMul(fmt, largest, max_relative))

\* Mutant: the last pair of elements is not compared.
Cg_vec_relative_eq_init(fmt, n, x, y, epsilon, max_relative) ==
    \A i \in 1..(n - 1) : Relative_eq(fmt, x[i], y[i], epsilon, max_relative)

\* cgmath: ApproxEq::relative_eq of VectorN: every pair of elements.
Cg_vec_relative_eq(fmt, n, x, y, epsilon, max_relative) ==
    \A i \in 1..n : Relative_eq(fmt, x[i], y[i], epsilon, max_relative)

\* cgmath: ApproxEq::relative_eq of Quaternion: the scalar parts and the
\* vector parts.
Cg_quat_relative_eq(fmt, x, y, epsilon, max_relative) ==
    /\ Relative_eq(fmt, x.s, y.s, epsilon, max_relative)
    /\ Cg_vec_relative_eq(fmt, 3, x.v, y.v, epsilon, max_relative)

\* impl_vector! ApproxEq::relative_eq
Vec_relative_eq(fmt, n, s, other, epsilon, max_relative) ==
    Cg_vec_relative_eq(fmt, n, Vec_inner(n, s), Vec_inner(n, other),
                       epsilon, max_relative)

\* vec2.rs / vec3.rs / vec4.rs / lib.rs: relative_eq of x && of y && ..
Plain_relative_eq(fmt, n, s, other, epsilon, max_relative) ==
    /\ Relative_eq(fmt, s.x, other.x, epsilon, max_relative)
    /\ Relative_eq(fmt, s.y, other.y, epsilon, max_relative)
    /\ n >= 3 => Relative_eq(fmt, s.z, other.z, epsilon, max_relative)
    /\ n >= 4 => Relative_eq(fmt, s.w, other.w, epsilon, max_relative)

\* vec2.rs / vec3.rs / vec4.rs: the cgmath vector is built from the fields
\* and the result rebuilt with vec2! / vec3! / vec4!.
Plain_normalize(fmt, n, s) ==
    LET x == Cg_normalize(fmt, n, Array(n, [i \in 1..n |-> s[VecFieldName[i]]]))
    IN  Vec_new(n, x)

\* Mutant: the widening cast goes through a type with one significand bit
\* less than f32.
DVec_from_vec_coarse(n, arg) ==
    Vec_new(n, Array(n, [i \in 1..n |->
        FCast([F32 EXCEPT !.p = F32.p - 1], arg[VecFieldName[i]])]))

\* From<Vec2> for DVec2 (and Vec3, Vec4): Self::new(arg.x as f64, ..)
DVec_from_vec(n, arg) ==
    Vec_new(n, Array(n, [i \in 1..n |-> FCast(F64, arg[VecFieldName[i]])]))

\* From<DVec2> for Vec2 (and Vec3, Vec4): Self::new(arg.x as f32, ..)
Vec_from_dvec(n, arg) ==
    Vec_new(n, Array(n, [i \in 1..n |-> FCast(F32, arg[VecFieldName[i]])]))

(***************************************************************************)
(* Quaternions (quat.rs) and the Trs transform (trs.rs), with the cgmath   *)
(* Vector3 / Quaternion / Matrix4 routines they call, in exact arithmetic. *)
(* A cgmath quaternion is the #[repr(C)] struct {s, v}: the scalar part is *)
(* stored first.                                                           *)
(*                                                                         *)
(* An angle <<k, j>> is k quarter turns plus j times the angle 2*atan(3/4) *)
(* (k an integer, j in -1..1): the sine and cosine of its half are         *)
(* rationals or rational multiples of sqrt(2).                             *)
(***************************************************************************)
\* sqrt(2) / 2
HalfSqrt2 == <<0, 1, 2>>

\* cos(k * PI/4) and sin(k * PI/4) for k = 0..7.
CosOct == <<One, HalfSqrt2, Zero, RNeg(HalfSqrt2),
            RNeg(One), RNeg(HalfSqrt2), Zero, HalfSqrt2>>
SinOct == <<Zero, HalfSqrt2, One, HalfSqrt2,
            Zero, RNeg(HalfSqrt2), RNeg(One), RNeg(HalfSqrt2)>>

\* (angle * 0.5).sin_cos(): the pair <<sin, cos>> of half the angle, by the
\* addition formulas from the tables and cos(atan(3/4)) = 4/5,
\* sin(atan(3/4)) = 3/5.
Sin_cos_half(angle) ==
    LET c8 == CosOct[(angle[1] % 8) + 1]
        s8 == SinOct[(angle[1] % 8) + 1]
        ct == IF angle[2] = 0 THEN One ELSE <<4, 5>>
        st == <<3 * angle[2], 5>>
    IN  <<RAdd(RMul(s8, ct), RMul(c8, st)), RSub(RMul(c8, ct), RMul(s8, st))>>

\* sqrt() of a scalar whose square root is a rational or a rational multiple
\* of sqrt(2): sqrt(n / d) = sqrt(n * d) / d.
Sqrt(p) ==
    LET k == p[1] * p[2]
        h == k \div 2
    IN  CASE ISqrt(k) * ISqrt(k) = k -> Rat(ISqrt(k), p[2])
          [] k % 2 = 0 /\ ISqrt(h) * ISqrt(h) = h -> Surd(0, ISqrt(h), p[2])

\* cgmath Vector3: new, dot, cross, * scalar, +, magnitude, normalize.
Vector3_new(x, y, z) == <<x, y, z>>

Vector3_dot(lhs, rhs) ==
    RAdd(RAdd(RMul(lhs[1], rhs[1]), RMul(lhs[2], rhs[2])),
         RMul(lhs[3], rhs[3]))

Vector3_cross(lhs, rhs) ==
    <<RSub(RMul(lhs[2], rhs[3]), RMul(lhs[3], rhs[2])),
      RSub(RMul(lhs[3], rhs[1]), RMul(lhs[1], rhs[3])),
      RSub(RMul(lhs[1], rhs[2]), RMul(lhs[2], rhs[1]))>>

Vector3_mul(lhs, k) == <<RMul(lhs[1], k), RMul(lhs[2], k), RMul(lhs[3], k)>>

Vector3_add(lhs, rhs) ==
    <<RAdd(lhs[1], rhs[1]), RAdd(lhs[2], rhs[2]), RAdd(lhs[3], rhs[3])>>

Vector3_magnitude(x) == Sqrt(Vector3_dot(x, x))

\* normalize_to(one): self * (one / self.magnitude())
Vector3_normalize(x) == Vector3_mul(x, RDiv(One, Vector3_magnitude(x)))

\* cgmath Quaternion::new(w, xi, yj, zk) and from_sv(s, v).
Quaternion_new(w, xi, yj, zk) == [s |-> w, v |-> <<xi, yj, zk>>]

Quaternion_from_sv(s, x) == [s |-> s, v |-> x]

\* &[S; 4] -> &Quaternion<S>: the array's memory read as {s, v}.
Quaternion_from_array(array) ==
    [s |-> array[1], v |-> <<array[2], array[3], array[4]>>]

\* Mutant: the vector part takes the negated sine.
Quaternion_from_axis_angle_left(axis, angle) ==
    LET sc == Sin_cos_half(angle)
    IN  Quaternion_from_sv(sc[2], Vector3_mul(axis, RNeg(sc[1])))

\* Rotation3::from_axis_angle: (s, c) = sin_cos(angle * 0.5);
\* from_sv(c, axis * s)
Quaternion_from_axis_angle(axis, angle) ==
    LET sc == Sin_cos_half(angle)
    IN  Quaternion_from_sv(sc[2], Vector3_mul(axis, sc[1]))

\* Quaternion * Quaternion: the Hamilton product of the cgmath operands.
Quaternion_mul(lhs, rhs) ==
    Quaternion_new(
        RSub(RSub(RSub(RMul(lhs.s, rhs.s), RMul(lhs.v[1], rhs.v[1])),
                  RMul(lhs.v[2], rhs.v[2])), RMul(lhs.v[3], rhs.v[3])),
        RSub(RAdd(RAdd(RMul(lhs.s, rhs.v[1]), RMul(lhs.v[1], rhs.s)),
                  RMul(lhs.v[2], rhs.v[3])), RMul(lhs.v[3], rhs.v[2])),
        RSub(RAdd(RAdd(RMul(lhs.s, rhs.v[2]), RMul(lhs.v[2], rhs.s)),
                  RMul(lhs.v[3], rhs.v[1])), RMul(lhs.v[1], rhs.v[3])),
        RSub(RAdd(RAdd(RMul(lhs.s, rhs.v[3]), RMul(lhs.v[3], rhs.s)),
                  RMul(lhs.v[1], rhs.v[2])), RMul(lhs.v[2], rhs.v[1])))

\* Quaternion * Vector3 (rotate_vector, rotate_point):
\* tmp = v x rhs + rhs * s; (v x tmp) * 2 + rhs
Quaternion_rotate_vector(lhs, rhs) ==
    LET tmp == Vector3_add(Vector3_cross(lhs.v, rhs), Vector3_mul(rhs, lhs.s))
    IN  Vector3_add(Vector3_mul(Vector3_cross(lhs.v, tmp), R(2)), rhs)

\* Matrix4::from(Quaternion): the rotation matrix, column by column.
Matrix4_from_quaternion(quat) ==
    LET x2 == RAdd(quat.v[1], quat.v[1])
        y2 == RAdd(quat.v[2], quat.v[2])
        z2 == RAdd(quat.v[3], quat.v[3])
        xx2 == RMul(x2, quat.v[1])
        xy2 == RMul(x2, quat.v[2])
        xz2 == RMul(x2, quat.v[3])
        yy2 == RMul(y2, quat.v[2])
        yz2 == RMul(y2, quat.v[3])
        zz2 == RMul(z2, quat.v[3])
        sy2 == RMul(y2, quat.s)
        sz2 == RMul(z2, quat.s)
        sx2 == RMul(x2, quat.s)
    IN  << <<RSub(RSub(One, yy2), zz2), RAdd(xy2, sz2), RSub(xz2, sy2), Zero>>,
           <<RSub(xy2, sz2), RSub(RSub(One, xx2), zz2), RAdd(yz2, sx2), Zero>>,
           <<RAdd(xz2, sy2), RSub(yz2, sx2), RSub(RSub(One, xx2), yy2), Zero>>,
           <<Zero, Zero, Zero, One>> >>

\* Matrix4::from_translation(v): v is the fourth column.
Matrix4_from_translation(x) ==
    << <<One, Zero, Zero, Zero>>, <<Zero, One, Zero, Zero>>,
       <<Zero, Zero, One, Zero>>, <<x[1], x[2], x[3], One>> >>

\* Matrix4::from_nonuniform_scale(x, y, z)
Matrix4_from_nonuniform_scale(x, y, z) ==
    << <<x, Zero, Zero, Zero>>, <<Zero, y, Zero, Zero>>,
       <<Zero, Zero, z, Zero>>, <<Zero, Zero, Zero, One>> >>

\* Mutant: the memory is read with the scalar part first.
Quat_as_ref_scalar_first(q) == <<q.s, q.x, q.y, q.z>>

\* AsRef<$array> of Quat / DQuat: the struct's memory read as [S; 4].
Quat_as_ref(q) == Array(4, [i \in 1..4 |-> q[QuatFields[i]]])

\* let a: &$inner = self.as_ref().into();
Quat_inner(q) == Quaternion_from_array(Quat_as_ref(q))

\* Mul<$self> for $self
Quat_mul(lhs, rhs) ==
    LET q == Quaternion_mul(Quat_inner(lhs), Quat_inner(rhs))
    IN  Quat_new(q.v[1], q.v[2], q.v[3], q.s)

\* impl_quaternion! MulAssign: *self = *self * rhs
Quat_mul_assign(q, rhs) == Quat_mul(q, rhs)

\* Quat::axis_angle
Quat_axis_angle(axis, angle) ==
    LET q == Quaternion_from_axis_angle(
                 Vector3_normalize(Vector3_new(axis.x, axis.y, axis.z)), angle)
    IN  Quat_new(q.v[1], q.v[2], q.v[3], q.s)

\* Mutant: the quaternion is passed to cgmath in field order.
Quat_rotate_field_order(q, vector) ==
    LET rotation == Quaternion_new(q.x, q.y, q.z, q.s)
        result == Quaternion_rotate_vector(rotation,
                      Vector3_new(vector.x, vector.y, vector.z))
    IN  Vec_new(3, result)

\* Quat::rotate
Quat_rotate(q, vector) ==
    LET rotation == Quaternion_new(q.s, q.x, q.y, q.z)
        result == Quaternion_rotate_vector(rotation,
                      Vector3_new(vector.x, vector.y, vector.z))
    IN  Vec_new(3, result)

\* quat!(x, y, z; angle): the rotation about the axis (x, y, z) by angle.
Quat_macro(x, y, z, angle) == Quat_axis_angle(Vec_new(3, <<x, y, z>>), angle)

\* Quat::euler
Quat_euler(angles) ==
    LET roll == Quat_macro(Zero, Zero, One, angles.z)
        pitch == Quat_macro(One, Zero, Zero, angles.x)
        yaw == Quat_macro(Zero, One, Zero, angles.y)
    IN  Quat_mul(Quat_mul(roll, pitch), yaw)

\* Trs::new
Trs_new(t, r, s) == [t |-> t, r |-> r, s |-> s]

\* Mutant: the identity transform built with a scale of zero.
Trs_identity_zero_scale ==
    [t |-> Vec_zero(3), r |-> Quat_identity, s |-> Vec_zero(3)]

\* Trs::identity
Trs_identity ==
    [t |-> Vec_zero(3), r |-> Quat_identity, s |-> Vec_new(3, <<One, One, One>>)]

\* Mutant: the scale is applied after the rotation.
Trs_matrix_scale_last(x) ==
    LET t == Matrix4_from_translation(Vector3_new(x.t.x, x.t.y, x.t.z))
        r == Matrix4_from_quaternion(
                 Quaternion_new(x.r.s, x.r.x, x.r.y, x.r.z))
        s == Matrix4_from_nonuniform_scale(x.s.x, x.s.y, x.s.z)
    IN  Mat_from(4, Cg_matrix_array(4, Cg_mul(4, Cg_mul(4, t, s), r)))

\* Trs::matrix
Trs_matrix(x) ==
    LET t == Matrix4_from_translation(Vector3_new(x.t.x, x.t.y, x.t.z))
        r == Matrix4_from_quaternion(
                 Quaternion_new(x.r.s, x.r.x, x.r.y, x.r.z))
        s == Matrix4_from_nonuniform_scale(x.s.x, x.s.y, x.s.z)
    IN  Mat_from(4, Cg_matrix_array(4, Cg_mul(4, Cg_mul(4, t, r), s)))

\* impl_quaternion! ApproxEq::relative_eq
Quat_relative_eq(fmt, q, other, epsilon, max_relative) ==
    Cg_quat_relative_eq(fmt, Quat_inner(q), Quat_inner(other),
                        epsilon, max_relative)

\* ApproxEq::relative_eq for Trs
Trs_relative_eq(fmt, x, other, epsilon, max_relative) ==
    /\ Vec_relative_eq(fmt, 3, x.t, other.t, epsilon, max_relative)
    /\ Quat_relative_eq(fmt, x.r, other.r, epsilon, max_relative)
    /\ Vec_relative_eq(fmt, 3, x.s, other.s, epsilon, max_relative)

(***************************************************************************)
(* Vectors in exact arithmetic: the narrowing and extending conversions,   *)
(* the macro constructors, the products and quotients with a scalar, dot   *)
(* and cross (vec.rs, vec3.rs, vec4.rs, macros.rs), and the homogeneous    *)
(* Vec3 of lib.rs.                                                         *)
(***************************************************************************)
\* Vec3::xy / Vec4::xy: Vec2::new(self.x, self.y)
Vec_xy(s) == Vec_new(2, <<s.x, s.y>>)

\* Mutant: the leading component is dropped instead of the trailing one.
Vec4_xyz_tail(s) == Vec_new(3, <<s.y, s.z, s.w>>)

\* Vec4::xyz: Vec3::new(self.x, self.y, self.z)
Vec4_xyz(s) == Vec_new(3, <<s.x, s.y, s.z>>)

\* From<(T, f32)> for Vec3, with T = Vec2
Vec3_from_pair(arg) ==
    LET xy == arg[1]
        z == arg[2]
    IN  Vec_new(3, <<xy.x, xy.y, z>>)

\* From<(T, f32, f32)> for Vec4, with T = Vec2
Vec4_from_triple(arg) ==
    LET xy == arg[1]
        z == arg[2]
        w == arg[3]
    IN  Vec_new(4, <<xy.x, xy.y, z, w>>)

\* From<(T, f32)> for Vec4, with T = Vec3
Vec4_from_pair(arg) ==
    LET xyz == arg[1]
        w == arg[2]
    IN  Vec_new(4, <<xyz.x, xyz.y, xyz.z, w>>)

\* From<f32> for Vec2 / Vec3 / Vec4: Self::new(arg, arg, ..)
Vec_from_scalar(n, arg) == Vec_new(n, Array(n, [i \in 1..n |-> arg]))

\* vec2! / vec3! / vec4!: no argument, one scalar, a narrower vector with
\* the trailing components, or every component.
Vec_macro(n, args) ==
    CASE Len(args) = 0 -> [f \in VecFieldSet(n) |-> Zero]
      [] Len(args) = 1 -> [f \in VecFieldSet(n) |-> args[1]]
      [] Len(args) = n -> [f \in VecFieldSet(n) |-> args[IndexOf(VecFields(n), f)]]
      [] n = 3 /\ Len(args) = 2 ->
            [x |-> args[1].x, y |-> args[1].y, z |-> args[2]]
      [] n = 4 /\ Len(args) = 2 ->
            [x |-> args[1].x, y |-> args[1].y, z |-> args[1].z, w |-> args[2]]
      [] n = 4 /\ Len(args) = 3 ->
            [x |-> args[1].x, y |-> args[1].y, z |-> args[2], w |-> args[3]]

\* Mutant: the scalar fills every entry of the matrix.
Mat_from_scalar_fill(n, arg) == Mat_tridiagonal(n, arg, arg, arg)

\* From<f32> for Mat2 / Mat3 / Mat4: diagonal(arg)
Mat_from_scalar(n, arg) == Mat_diagonal(n, arg)

\* mat2! / mat3! / mat4!: identity() with no argument, otherwise from() of
\* the arguments in arrays of n.
Mat_macro(n, args) ==
    IF Len(args) = 0 THEN Mat_identity(n)
    ELSE Mat_from(n, Array2(n, [i \in 1..n |-> [j \in 1..n |->
                                    args[(i - 1) * n + j]]]))

\* cgmath: scalar * vector, vector / scalar and matrix * scalar, element
\* by element.
Cg_scalar_mul_vec(n, k, x) == Array(n, [i \in 1..n |-> RMul(k, x[i])])
Cg_vec_div_scalar(n, x, k) == Array(n, [i \in 1..n |-> RDiv(x[i], k)])
Cg_mat_mul_scalar(n, m, k) ==
    Array2(n, [c \in 1..n |-> [r \in 1..n |-> RMul(m[c][r], k)]])

\* impl_vector! Mul<$self> for $base: (self * a)
Base_mul_vec(n, k, arg) ==
    Vec_from(n, Cg_vector_array(n, Cg_scalar_mul_vec(n, k, Vec_inner(n, arg))))

\* impl_vector! Mul<$base> for $self: (arg * a)
Vec_mul_base(n, s, arg) ==
    Vec_from(n, Cg_vector_array(n, Cg_scalar_mul_vec(n, arg, Vec_inner(n, s))))

\* impl_vector! Div<$base> for $self: (a / arg)
Vec_div_base(n, s, arg) ==
    Vec_from(n, Cg_vector_array(n, Cg_vec_div_scalar(n, Vec_inner(n, s), arg)))

\* vec3.rs / vec4.rs: Mul<f32> for Vec3, Mul<Vec3> for f32
Plain_mul(n, s, rhs) == [f \in VecFieldSet(n) |-> RMul(s[f], rhs)]

Plain_mul_left(n, k, rhs) == Plain_mul(n, rhs, k)

\* vec3.rs / vec4.rs: Div<f32> for Vec3
Plain_div(n, s, rhs) == [f \in VecFieldSet(n) |-> RDiv(s[f], rhs)]

\* Mutant: the scalar is divided by each component (division by a zero
\* component gives an infinity).
Plain_div_left_reciprocal(n, k, rhs) ==
    [f \in VecFieldSet(n) |->
        IF rhs[f] = Zero THEN PosInf ELSE RDiv(k, rhs[f])]

\* vec3.rs / vec4.rs: Div<Vec3> for f32 is rhs.div(self)
Plain_div_left(n, k, rhs) == Plain_div(n, rhs, k)

\* impl_matrix! Mul<$base> for $self: (a * rhs)
Mat_mul_base(n, s, rhs) ==
    Mat_from(n, Cg_matrix_array(n, Cg_mat_mul_scalar(n, Mat_inner(n, s), rhs)))

\* impl_matrix! Mul<$self> for $base: ops::Mul::mul(rhs, self)
Base_mul_mat(n, k, rhs) == Mat_mul_base(n, rhs, k)

\* Mutant: the components of the product are stored one place on.
Vec3_cross_shifted(s, rhs) ==
    LET c == Vector3_cross(Vec_inner(3, s), Vec_inner(3, rhs))
    IN  Vec_from(3, Cg_vector_array(3, <<c[2], c[3], c[1]>>))

\* vec.rs: Vec3::cross / DVec3::cross
Vec3_cross(s, rhs) ==
    Vec_from(3, Cg_vector_array(3,
        Vector3_cross(Vec_inner(3, s), Vec_inner(3, rhs))))

\* impl_vector! dot, for the three-component types
Vec3_dot(s, rhs) == Vector3_dot(Vec_inner(3, s), Vec_inner(3, rhs))

\* vec3.rs: Vec3::cross
Plain_cross(s, rhs) ==
    LET left == Vector3_new(s.x, s.y, s.z)
        right == Vector3_new(rhs.x, rhs.y, rhs.z)
        result == Vector3_cross(left, right)
    IN  Vec_macro(3, <<result[1], result[2], result[3]>>)

\* vec3.rs: Vec3::dot
Plain_dot(s, rhs) ==
    LET left == Vector3_new(s.x, s.y, s.z)
        right == Vector3_new(rhs.x, rhs.y, rhs.z)
    IN  Vector3_dot(left, right)

\* lib.rs: the Vec3 with the hidden w field.
Lib_vec3(x, y, z) == [x |-> x, y |-> y, z |-> z, w |-> Zero]

\* vec3!(), vec3!(s), vec3!(xy, z), vec3!(x, y, z) for the Vec3 of lib.rs
Lib_vec3_macro(args) ==
    CASE Len(args) = 0 -> Lib_vec3(Zero, Zero, Zero)
      [] Len(args) = 1 -> Lib_vec3(args[1], args[1], args[1])
      [] Len(args) = 2 -> Lib_vec3(args[1].x, args[1].y, args[2])
      [] Len(args) = 3 -> Lib_vec3(args[1], args[2], args[3])

\* lib.rs: Add<f32> for Vec3
Lib_vec3_add_scalar(s, rhs) ==
    [x |-> RAdd(s.x, rhs), y |-> RAdd(s.y, rhs), z |-> RAdd(s.z, rhs),
     w |-> Zero]

\* lib.rs: Sub<f32> for Vec3
Lib_vec3_sub_scalar(s, rhs) ==
    [x |-> RSub(s.x, rhs), y |-> RSub(s.y, rhs), z |-> RSub(s.z, rhs),
     w |-> Zero]

\* lib.rs: Add<Vec3> for Vec3
Lib_vec3_add(s, rhs) ==
    [x |-> RAdd(s.x, rhs.x), y |-> RAdd(s.y, rhs.y), z |-> RAdd(s.z, rhs.z),
     w |-> Zero]

\* lib.rs: Sub<Vec3> for Vec3
Lib_vec3_sub(s, rhs) ==
    [x |-> RSub(s.x, rhs.x), y |-> RSub(s.y, rhs.y), z |-> RSub(s.z, rhs.z),
     w |-> Zero]

\* Mutant: the w of the Vec4 is kept.
Lib_vec3_from_vec4_keep(vec4) ==
    [x |-> vec4.x, y |-> vec4.y, z |-> vec4.z, w |-> vec4.w]

\* lib.rs: From<Vec4> for Vec3
Lib_vec3_from_vec4(vec4) ==
    [x |-> vec4.x, y |-> vec4.y, z |-> vec4.z, w |-> Zero]

\* lib.rs: Quaternion { vector, scalar }
Lib_quaternion(vector, scalar) == [vector |-> vector, scalar |-> scalar]

\* lib.rs: Quaternion::identity
Lib_quaternion_identity == [scalar |-> One, vector |-> Lib_vec3_macro(<<>>)]

\* lib.rs: Transform3 { translation, rotation, scale }
Transform3_new(translation, rotation, scale) ==
    [translation |-> translation, rotation |-> rotation, scale |-> scale]

\* Transform3::identity
Transform3_identity ==
    [translation |-> Lib_vec3_macro(<<>>),
     rotation |-> Lib_quaternion_identity,
     scale |-> Lib_vec3_macro(<<One>>)]

\* Transform3::matrix: cgmath::Quaternion::new(w, xi, yj, zk) receives
\* vector.x, vector.y, vector.z, scalar in this order.
Transform3_matrix(x) ==
    LET t == Matrix4_from_translation(
                 Vector3_new(x.translation.x, x.translation.y, x.translation.z))
        r == Matrix4_from_quaternion(
                 Quaternion_new(x.rotation.vector.x, x.rotation.vector.y,
                                x.rotation.vector.z, x.rotation.scalar))
        s == Matrix4_from_nonuniform_scale(x.scale.x, x.scale.y, x.scale.z)
    IN  Mat_from(4, Cg_matrix_array(4, Cg_mul(4, Cg_mul(4, t, r), s)))

(***************************************************************************)
(* Inputs of the model.                                                    *)
(***************************************************************************)
Scalars == {R(i) : i \in (-MaxAbs)..MaxAbs}
BandScalars == {R(i) : i \in 0..MaxBand}

\* Arguments of tridiagonal(lo, di, up) written out as new() arguments.
BandArgs(n, lo, di, up) ==
    [k \in 1..(n * n) |->
        LET i == ((k - 1) \div n) + 1
            j == ((k - 1) % n) + 1
        IN  IF i = j THEN di
            ELSE IF j = i + 1 THEN up
            ELSE IF i = j + 1 THEN lo
            ELSE Zero]

\* Argument lists handed to new(): every list for the 2x2 types; for the
\* larger types the banded lists with one argument replaced by a value
\* outside the band's range.
NewArgs(n) ==
    IF n = 2 THEN [1..4 -> Scalars]
    ELSE {[BandArgs(n, lo, di, up) EXCEPT ![k] = R(MaxBand + 1)] :
            lo \in BandScalars, di \in BandScalars, up \in BandScalars,
            k \in 1..(n * n)}

\* Vectors handed to the products: the components all distinct (start +
\* step * position), or one component 1 and the others 0.
Vecs(n) ==
    {Vec_new(n, [k \in 1..n |-> R(o + d * k)]) :
        o \in 0..MaxVec, d \in 1..MaxVec}
    \cup {Vec_new(n, [k \in 1..n |-> IF k = p THEN One ELSE Zero]) :
        p \in 1..n}

\* Right operands of the matrix product: banded lists with a unit diagonal
\* and argument n replaced by a value outside the band's range.
RhsMats(n) ==
    {Mat_new(n, [BandArgs(n, lo, One, up) EXCEPT ![n] = R(MaxBand + 1)]) :
        lo \in BandScalars, up \in BandScalars}

(***************************************************************************)
(* The matrix machine: a value is constructed, then one operation is       *)
(* applied to it.                                                          *)
(***************************************************************************)
ConvIdle ==
    /\ cpc = "idle"
    /\ cty = "Vec2"
    /\ carr = <<>>
    /\ cobj = <<>>
    /\ cout = <<>>

FloatIdle ==
    /\ fpc = "idle"
    /\ fprec = "single"
    /\ fdim = 2
    /\ fin = <<>>
    /\ fmid = <<>>
    /\ fout = <<>>

\* Default::default() of a quaternion and of a Trs is identity().
QuatIdle ==
    /\ qpc = "idle"
    /\ qctor = "default"
    /\ qargs = <<>>
    /\ qval = Quat_identity
    /\ qvec = Vec_zero(3)
    /\ qrot = Vec_zero(3)
    /\ trs = Trs_identity
    /\ tmat = Mat_identity(4)

VecIdle ==
    /\ vpc = "idle"
    /\ vop = "none"
    /\ vargs = <<>>
    /\ vres = <<>>

\* Default::default() of a matrix is identity(), of a vector zero.
Init ==
    /\ pc = "start"
    /\ dim \in Dims
    /\ ctor = "default"
    /\ cargs = <<>>
    /\ a = Mat_identity(dim)
    /\ b = Mat_identity(dim)
    /\ v = Vec_zero(dim)
    /\ op = "none"
    /\ res = Unit
    /\ ConvIdle
    /\ FloatIdle
    /\ QuatIdle
    /\ VecIdle

Construct(name, args, m) ==
    /\ pc' = "ready"
    /\ ctor' = name
    /\ cargs' = args
    /\ a' = m
    /\ UNCHANGED <<dim, b, v, op, res>>
    /\ UNCHANGED convVars
    /\ UNCHANGED floatVars
    /\ UNCHANGED quatVars
    /\ UNCHANGED vecVars

New ==
    /\ pc = "start"
    /\ \E args \in NewArgs(dim) : Construct("new", args, Mat_new(dim, args))

Tridiagonal ==
    /\ pc = "start"
    /\ \E lo \in Scalars, di \in Scalars, up \in Scalars :
          Construct("tridiagonal", <<lo, di, up>>,
                    Mat_tridiagonal(dim, lo, di, up))

Diagonal ==
    /\ pc = "start"
    /\ \E di \in Scalars : Construct("diagonal", <<di>>, Mat_diagonal(dim, di))

Identity ==
    /\ pc = "start"
    /\ Construct("identity", <<>>, Mat_identity(dim))

Apply(name, r) ==
    /\ pc' = "done"
    /\ op' = name
    /\ res' = r
    /\ UNCHANGED <<dim, ctor, cargs, a>>
    /\ UNCHANGED convVars
    /\ UNCHANGED floatVars
    /\ UNCHANGED quatVars
    /\ UNCHANGED vecVars

MulVec ==
    /\ pc = "ready"
    /\ \E x \in Vecs(dim) :
          /\ v' = x
          /\ b' = b
          /\ Apply("mul_vec", Value("Vec", Mat_mul_vec(dim, a, x)))

Mul ==
    /\ pc = "ready"
    /\ \E y \in RhsMats(dim) :
          /\ b' = y
          /\ v' = v
          /\ Apply("mul", Value("Mat", Mat_mul(dim, a, y)))

Determinant ==
    /\ pc = "ready"
    /\ UNCHANGED <<b, v>>
    /\ Apply("determinant", Value("Scalar", Mat_determinant(dim, a)))

TryInvert ==
    /\ pc = "ready"
    /\ UNCHANGED <<b, v>>
    /\ Apply("try_invert", Mat_try_invert(dim, a))

Inverse ==
    /\ pc = "ready"
    /\ UNCHANGED <<b, v>>
    /\ Apply("inverse", Mat_inverse(dim, a))

Transpose ==
    /\ pc = "ready"
    /\ UNCHANGED <<b, v>>
    /\ Apply("transpose", Value("Mat", Mat_transpose(dim, a)))

\* The name of the conversion into the matrix type of size n, and the size
\* a conversion of that name produces.
ResizeName == [n \in Dims |->
    CASE n = 2 -> "mat2_from" [] n = 3 -> "mat3_from" [] n = 4 -> "mat4_from"]

ResizeDim(name) == CHOOSE n \in Dims : ResizeName[n] = name

ResizeOps == {ResizeName[n] : n \in Dims}

\* MatN::from(a) for a size N other than the size of a.
Resize ==
    /\ pc = "ready"
    /\ UNCHANGED <<b, v>>
    /\ \E n \in Dims \ {dim} :
          Apply(ResizeName[n], Value("Mat", Mat_from_mat(n, dim, a)))

\* The converted matrix is converted back to the size of a.
ResizeBack ==
    /\ pc = "done"
    /\ op \in ResizeOps
    /\ pc' = "back"
    /\ res' = Value("Mat", Mat_from_mat(dim, ResizeDim(op), res.val))
    /\ UNCHANGED <<dim, ctor, cargs, a, b, v, op>>
    /\ UNCHANGED convVars
    /\ UNCHANGED floatVars
    /\ UNCHANGED quatVars
    /\ UNCHANGED vecVars

\* The tuple-wrapped matrix holding the same array as a.
Wrapped(n, s) == Wrapped_from(n, Mat_into(n, s))

WrappedTryInvert ==
    /\ pc = "ready"
    /\ UNCHANGED <<b, v>>
    /\ Apply("wrapped_try_invert", Wrapped_try_invert(dim, Wrapped(dim, a)))

WrappedInvert ==
    /\ pc = "ready"
    /\ UNCHANGED <<b, v>>
    /\ Apply("wrapped_invert", Wrapped_invert(dim, Wrapped(dim, a)))

WrappedMulVec ==
    /\ pc = "ready"
    /\ \E x \in Vecs(dim) :
          /\ v' = x
          /\ b' = b
          /\ Apply("wrapped_mul_vec",
                   Value("Vec", Wrapped_mul_vec(dim, Wrapped(dim, a), x)))

\* The name of the product taken in the matrix type of size n.
EmbedMulName == [n \in Dims |->
    CASE n = 2 -> "mat2_embed_mul" [] n = 3 -> "mat3_embed_mul"
      [] n = 4 -> "mat4_embed_mul"]

EmbedMulDim(name) == CHOOSE n \in Dims : EmbedMulName[n] = name

EmbedMulOps == {EmbedMulName[n] : n \in Dims}

\* MatN::from(a) * MatN::from(y) for a size N larger than the size of a.
EmbedMul ==
    /\ pc = "ready"
    /\ \E y \in RhsMats(dim) : \E n \in {k \in Dims : k > dim} :
          /\ b' = y
          /\ v' = v
          /\ Apply(EmbedMulName[n],
                   Value("Mat", Mat_mul(n, Mat_from_mat(n, dim, a),
                                           Mat_from_mat(n, dim, y))))

Next ==
    \/ EmbedMul
    \/ New
    \/ Tridiagonal
    \/ Diagonal
    \/ Identity
    \/ MulVec
    \/ Mul
    \/ Determinant
    \/ TryInvert
    \/ Inverse
    \/ Transpose
    \/ Resize
    \/ ResizeBack
    \/ WrappedTryInvert
    \/ WrappedInvert
    \/ WrappedMulVec

Spec == Init /\ [][Next]_vars

(***************************************************************************)
(* The conversion machine: an array is converted into a value with From,   *)
(* and the value back to an array with Into.                               *)
(***************************************************************************)
ConvTypes == {"Vec2", "Vec3", "Vec4", "Mat2", "Mat3", "Mat4", "Quat"}

VecTypes == {"Vec2", "Vec3", "Vec4"}
MatTypes == {"Mat2", "Mat3", "Mat4"}

\* Width of the type: components of a vector, rows of a matrix.
Width(ty) ==
    CASE ty \in {"Vec2", "Mat2"} -> 2
      [] ty \in {"Vec3", "Mat3"} -> 3
      [] ty \in {"Vec4", "Mat4", "Quat"} -> 4

\* Number of scalars of the type.
Size(ty) == IF ty \in MatTypes THEN Width(ty) * Width(ty) ELSE Width(ty)

\* The array of the type's shape holding the scalars of flat, in order.
Shaped(ty, flat) ==
    IF ty \in MatTypes
    THEN [i \in 1..Width(ty) |-> [j \in 1..Width(ty) |->
            flat[(i - 1) * Width(ty) + j]]]
    ELSE flat

\* Input arrays: all elements distinct (start + step * position), or one
\* element 1 and the others 0.
Arrays(ty) ==
    {Shaped(ty, [k \in 1..Size(ty) |-> R(o + d * k)]) :
        o \in 0..MaxRamp, d \in 1..MaxRamp}
    \cup {Shaped(ty, [k \in 1..Size(ty) |-> IF k = p THEN One ELSE Zero]) :
        p \in 1..Size(ty)}

Conv_default(ty) ==
    CASE ty \in VecTypes -> Vec_zero(Width(ty))
      [] ty \in MatTypes -> Mat_identity(Width(ty))
      [] ty = "Quat" -> Quat_identity

Conv_from(ty, array) ==
    CASE ty \in VecTypes -> Vec_from(Width(ty), array)
      [] ty \in MatTypes -> Mat_from(Width(ty), array)
      [] ty = "Quat" -> Quat_from(array)

Conv_into(ty, x) ==
    CASE ty \in VecTypes -> Vec_into(Width(ty), x)
      [] ty \in MatTypes -> Mat_into(Width(ty), x)
      [] ty = "Quat" -> Quat_into(x)

Conv_as_ref(ty, x) ==
    CASE ty \in VecTypes -> Vec_as_ref(Width(ty), x)
      [] ty \in MatTypes -> Mat_as_ref(Width(ty), x)
      [] ty = "Quat" -> Quat_as_ref(x)

MatIdle ==
    /\ pc = "idle"
    /\ dim = 2
    /\ ctor = "default"
    /\ cargs = <<>>
    /\ a = Mat_identity(2)
    /\ b = Mat_identity(2)
    /\ v = Vec_zero(2)
    /\ op = "none"
    /\ res = Unit

ConvInit ==
    /\ cpc = "start"
    /\ cty \in ConvTypes
    /\ carr \in Arrays(cty)
    /\ cobj = Conv_default(cty)
    /\ cout = <<>>
    /\ MatIdle
    /\ FloatIdle
    /\ QuatIdle
    /\ VecIdle

From ==
    /\ cpc = "start"
    /\ cpc' = "from"
    /\ cobj' = Conv_from(cty, carr)
    /\ UNCHANGED <<cty, carr, cout>>
    /\ UNCHANGED matVars
    /\ UNCHANGED floatVars
    /\ UNCHANGED quatVars
    /\ UNCHANGED vecVars

Into ==
    /\ cpc = "from"
    /\ cpc' = "into"
    /\ cout' = Conv_into(cty, cobj)
    /\ UNCHANGED <<cty, carr, cobj>>
    /\ UNCHANGED matVars
    /\ UNCHANGED floatVars
    /\ UNCHANGED quatVars
    /\ UNCHANGED vecVars

\* *cobj.as_ref()
AsRef ==
    /\ cpc = "from"
    /\ cpc' = "as_ref"
    /\ cout' = Conv_as_ref(cty, cobj)
    /\ UNCHANGED <<cty, carr, cobj>>
    /\ UNCHANGED matVars
    /\ UNCHANGED floatVars
    /\ UNCHANGED quatVars
    /\ UNCHANGED vecVars

ConvNext == From \/ Into \/ AsRef

ConvSpec == ConvInit /\ [][ConvNext]_vars

(***************************************************************************)
(* The float machine: a single- or double-precision vector is converted    *)
(* to the other precision (and back); a single-precision vector is         *)
(* normalized (the double-precision types run the same macro code).        *)
(***************************************************************************)
Fmt(prec) == IF prec = "single" THEN F32 ELSE F64

\* Every finite value of the format.
FiniteFloats(fmt) ==
    {RMul(R(sg * m), Pow2(q)) :
        sg \in {-1, 1}, m \in 0..(2 ^ fmt.p - 1), q \in fmt.qmin..fmt.qmax}

\* Every value of the format.
Floats(fmt) == FiniteFloats(fmt) \cup {PosInf, NegInf, NaN}

\* Values of the components that are held fixed.
Fill == {Zero, One, R(3)}

\* Input vectors: one component takes every value of the format, the other
\* components share one fixed value.
FloatVecs(prec, n) ==
    {Vec_new(n, Array(n, [i \in 1..n |-> IF i = k THEN x ELSE c])) :
        k \in 1..n, x \in Floats(Fmt(prec)), c \in Fill}

FloatInit ==
    /\ fpc = "start"
    /\ fprec \in {"single", "double"}
    /\ fdim \in Dims
    /\ fin \in FloatVecs(fprec, fdim)
    /\ fmid = <<>>
    /\ fout = <<>>
    /\ MatIdle
    /\ ConvIdle
    /\ QuatIdle
    /\ VecIdle

FloatStep(to, mid, out) ==
    /\ fpc' = to
    /\ fmid' = mid
    /\ fout' = out
    /\ UNCHANGED <<fprec, fdim, fin>>
    /\ UNCHANGED matVars
    /\ UNCHANGED convVars
    /\ UNCHANGED quatVars
    /\ UNCHANGED vecVars

\* DVec::from(v) of a single-precision vector.
Widen ==
    /\ fpc = "start"
    /\ fprec = "single"
    /\ FloatStep("wide", DVec_from_vec(fdim, fin), fout)

\* Vec::from(d) of the widened vector.
NarrowBack ==
    /\ fpc = "wide"
    /\ FloatStep("back", fmid, Vec_from_dvec(fdim, fmid))

\* Vec::from(d) of a double-precision vector.
Narrow ==
    /\ fpc = "start"
    /\ fprec = "double"
    /\ FloatStep("narrow", fmid, Vec_from_dvec(fdim, fin))

Normalize ==
    /\ fpc = "start"
    /\ fprec = "single"
    /\ FloatStep("normalize", fmid, Vec_normalize(F32, fdim, fin))

PlainNormalize ==
    /\ fpc = "start"
    /\ fprec = "single"
    /\ FloatStep("plain_normalize", fmid, Plain_normalize(F32, fdim, fin))

\* The structs compared with s: s itself, and s with one field replaced by
\* 1.0 or NaN.
Others(s) ==
    {s} \cup {[s EXCEPT ![f] = y] : f \in DOMAIN s, y \in {One, NaN}}

\* The quaternion with the components of the Vec4 s.
AsQuat(s) == Quat_new(s.x, s.y, s.z, s.w)

\* The Trs values built around the Vec3 s.
AsTrs(s) == Trs_new(s, AsQuat(Vec_new(4, <<s.x, s.y, s.z, One>>)), s)

\* The Trs values compared with x: x itself, and x with one field of one
\* part replaced.
OtherTrs(x) ==
    {[x EXCEPT !.t = y] : y \in Others(x.t)}
    \cup {[x EXCEPT !.r = y] : y \in Others(x.r)}
    \cup {[x EXCEPT !.s = y] : y \in Others(x.s)}

\* fin.relative_eq(other, default_epsilon(), default_max_relative())
VecRelativeEq ==
    /\ fpc = "start"
    /\ fprec = "single"
    /\ \E other \in Others(fin) :
          FloatStep("vec_eq", other,
                    Vec_relative_eq(F32, fdim, fin, other,
                                    Epsilon(F32), Epsilon(F32)))

\* relative_eq of two quaternions
QuatRelativeEq ==
    /\ fpc = "start"
    /\ fprec = "single"
    /\ fdim = 4
    /\ \E other \in Others(AsQuat(fin)) :
          FloatStep("quat_eq", other,
                    Quat_relative_eq(F32, AsQuat(fin), other,
                                     Epsilon(F32), Epsilon(F32)))

\* relative_eq of two Trs values
TrsRelativeEq ==
    /\ fpc = "start"
    /\ fprec = "single"
    /\ fdim = 3
    /\ \E other \in OtherTrs(AsTrs(fin)) :
          FloatStep("trs_eq", other,
                    Trs_relative_eq(F32, AsTrs(fin), other,
                                    Epsilon(F32), Epsilon(F32)))

FloatNext == Widen \/ NarrowBack \/ Narrow \/ Normalize \/ PlainNormalize
                \/ VecRelativeEq \/ QuatRelativeEq \/ TrsRelativeEq

FloatSpec == FloatInit /\ [][FloatNext]_vars

(***************************************************************************)
(* The quaternion machine: a quaternion is built (identity, new,           *)
(* axis_angle, euler or a product) and then either rotates a vector or     *)
(* becomes the rotation of a Trs whose matrix() is taken.                  *)
(***************************************************************************)
\* Angles: up to MaxTurn quarter turns either way, with or without the
\* angle 2*atan(3/4) added.
Angles == {<<k, j>> : k \in (-MaxTurn)..MaxTurn, j \in 0..1}

\* Euler angles: at most one of the three has the angle 2*atan(3/4) added.
EulerAngles ==
    {x \in Angles \X Angles \X Angles : x[1][2] + x[2][2] + x[3][2] <= 1}

\* The basis axes, at length 1 and longer.
BasisAxes ==
    {Vec_new(3, [k \in 1..3 |-> IF k = p THEN R(m) ELSE Zero]) :
        p \in 1..3, m \in 1..(MaxVec + 1)}

\* Rotation axes: the basis axes and axes off the basis, of length sqrt(2)
\* and 3.
Axes ==
    BasisAxes \cup {Vec_new(3, <<One, One, Zero>>),
                    Vec_new(3, <<R(2), R(-1), R(2)>>)}

\* Arguments of Quat::new for unit quaternions.
QuatArgs ==
    { <<Zero, Zero, Zero, One>>, <<One, Zero, Zero, Zero>>,
      <<Zero, One, Zero, Zero>>, <<Zero, Zero, One, Zero>>,
      <<HalfSqrt2, Zero, Zero, HalfSqrt2>>,
      <<Zero, <<3, 5>>, Zero, <<4, 5>>>>,
      << <<1, 2>>, <<1, 2>>, <<1, 2>>, <<1, 2>> >>,
      << <<2, 3>>, <<-1, 3>>, Zero, <<2, 3>> >> }

\* Operands of a product.
Quats == {Quat_new(x[1], x[2], x[3], x[4]) : x \in QuatArgs}

\* Vectors that are rotated.
RotVecs == Vecs(3) \cup Axes

\* Translations and scales of a Trs.
Translations == {Vec_zero(3), Vec_new(3, <<One, Zero, Zero>>),
                 Vec_new(3, <<R(1), R(-2), R(3)>>)}
Scales == {Vec_new(3, <<One, One, One>>), Vec_new(3, <<R(2), R(2), R(2)>>),
           Vec_new(3, <<R(2), R(3), R(-1)>>)}

QuatInit ==
    /\ qpc = "start"
    /\ qctor = "default"
    /\ qargs = <<>>
    /\ qval = Quat_identity
    /\ qvec = Vec_zero(3)
    /\ qrot = Vec_zero(3)
    /\ trs = Trs_identity
    /\ tmat = Mat_identity(4)
    /\ MatIdle
    /\ ConvIdle
    /\ FloatIdle
    /\ VecIdle

\* A quaternion is built by the constructor name from args.
QuatStep(name, args, q) ==
    /\ qpc' = "quat"
    /\ qctor' = name
    /\ qargs' = args
    /\ qval' = q
    /\ UNCHANGED <<qvec, qrot, trs, tmat>>
    /\ UNCHANGED matVars
    /\ UNCHANGED convVars
    /\ UNCHANGED floatVars
    /\ UNCHANGED vecVars

QuatIdentity ==
    /\ qpc = "start"
    /\ QuatStep("identity", <<>>, Quat_identity)

QuatNew ==
    /\ qpc = "start"
    /\ \E x \in QuatArgs :
          QuatStep("new", x, Quat_new(x[1], x[2], x[3], x[4]))

QuatAxisAngle ==
    /\ qpc = "start"
    /\ \E axis \in Axes, angle \in Angles :
          QuatStep("axis_angle", <<axis, angle>>, Quat_axis_angle(axis, angle))

QuatEuler ==
    /\ qpc = "start"
    /\ \E x \in EulerAngles :
          LET angles == Vec_new(3, x)
          IN  QuatStep("euler", <<angles>>, Quat_euler(angles))

QuatMul ==
    /\ qpc = "start"
    /\ \E lhs \in Quats, rhs \in Quats :
          QuatStep("mul", <<lhs, rhs>>, Quat_mul(lhs, rhs))

\* q.rotate(vector)
Rotate ==
    /\ qpc = "quat"
    /\ \E vector \in RotVecs :
          /\ qpc' = "rotated"
          /\ qvec' = vector
          /\ qrot' = Quat_rotate(qval, vector)
    /\ UNCHANGED <<qctor, qargs, qval, trs, tmat>>
    /\ UNCHANGED matVars
    /\ UNCHANGED convVars
    /\ UNCHANGED floatVars
    /\ UNCHANGED vecVars

\* Trs::new(t, q, s)
TrsNew ==
    /\ qpc = "quat"
    /\ \E t \in Translations, s \in Scales :
          /\ qpc' = "trs"
          /\ trs' = Trs_new(t, qval, s)
    /\ UNCHANGED <<qctor, qargs, qval, qvec, qrot, tmat>>
    /\ UNCHANGED matVars
    /\ UNCHANGED convVars
    /\ UNCHANGED floatVars
    /\ UNCHANGED vecVars

\* Trs::identity()
TrsIdentity ==
    /\ qpc = "start"
    /\ qpc' = "trs"
    /\ qctor' = "trs_identity"
    /\ trs' = Trs_identity
    /\ UNCHANGED <<qargs, qval, qvec, qrot, tmat>>
    /\ UNCHANGED matVars
    /\ UNCHANGED convVars
    /\ UNCHANGED floatVars
    /\ UNCHANGED vecVars

\* trs.matrix()
TrsMatrix ==
    /\ qpc = "trs"
    /\ qpc' = "matrix"
    /\ tmat' = Trs_matrix(trs)
    /\ UNCHANGED <<qctor, qargs, qval, qvec, qrot, trs>>
    /\ UNCHANGED matVars
    /\ UNCHANGED convVars
    /\ UNCHANGED floatVars
    /\ UNCHANGED vecVars

\* The Vec3 of lib.rs with the components of the Vec3 x.
AsLibVec3(x) == Lib_vec3_macro(<<x.x, x.y, x.z>>)

\* Transform3::identity()
Transform3Identity ==
    /\ qpc = "start"
    /\ qpc' = "transform3"
    /\ qctor' = "transform3_identity"
    /\ trs' = Transform3_identity
    /\ UNCHANGED <<qargs, qval, qvec, qrot, tmat>>
    /\ UNCHANGED matVars
    /\ UNCHANGED convVars
    /\ UNCHANGED floatVars
    /\ UNCHANGED vecVars

\* Transform3 { translation: t, rotation: Quaternion { vector, scalar },
\* scale: s }
Transform3Literal ==
    /\ qpc = "start"
    /\ \E t \in Translations, x \in QuatArgs, s \in Scales :
          /\ qpc' = "transform3"
          /\ qctor' = "transform3"
          /\ trs' = Transform3_new(
                        AsLibVec3(t),
                        Lib_quaternion(Lib_vec3_macro(<<x[1], x[2], x[3]>>), x[4]),
                        AsLibVec3(s))
    /\ UNCHANGED <<qargs, qval, qvec, qrot, tmat>>
    /\ UNCHANGED matVars
    /\ UNCHANGED convVars
    /\ UNCHANGED floatVars
    /\ UNCHANGED vecVars

\* transform3.matrix()
Transform3Matrix ==
    /\ qpc = "transform3"
    /\ qpc' = "transform3_matrix"
    /\ tmat' = Transform3_matrix(trs)
    /\ UNCHANGED <<qctor, qargs, qval, qvec, qrot, trs>>
    /\ UNCHANGED matVars
    /\ UNCHANGED convVars
    /\ UNCHANGED floatVars
    /\ UNCHANGED vecVars

QuatNext ==
    \/ Transform3Identity
    \/ Transform3Literal
    \/ Transform3Matrix
    \/ QuatIdentity
    \/ QuatNew
    \/ QuatAxisAngle
    \/ QuatEuler
    \/ QuatMul
    \/ Rotate
    \/ TrsNew
    \/ TrsIdentity
    \/ TrsMatrix

QuatSpec == QuatInit /\ [][QuatNext]_vars

(***************************************************************************)
(* The vector machine: one constructor, conversion or operator of the      *)
(* vector types is applied to its arguments; a widened vector is narrowed  *)
(* again.                                                                  *)
(***************************************************************************)
VecInit ==
    /\ vpc = "start"
    /\ vop = "none"
    /\ vargs = <<>>
    /\ vres = <<>>
    /\ MatIdle
    /\ ConvIdle
    /\ FloatIdle
    /\ QuatIdle

VecStep(to, name, args, r) ==
    /\ vpc' = to
    /\ vop' = name
    /\ vargs' = args
    /\ vres' = r
    /\ UNCHANGED matVars
    /\ UNCHANGED convVars
    /\ UNCHANGED floatVars
    /\ UNCHANGED quatVars

\* Vec3::from((xy, z))
Vec3FromPair ==
    /\ vpc = "start"
    /\ \E xy \in Vecs(2), z \in Scalars :
          VecStep("extended", "vec3_from_pair", <<xy, z>>,
                  Vec3_from_pair(<<xy, z>>))

\* Vec4::from((xyz, w))
Vec4FromPair ==
    /\ vpc = "start"
    /\ \E xyz \in Vecs(3), w \in Scalars :
          VecStep("extended", "vec4_from_pair", <<xyz, w>>,
                  Vec4_from_pair(<<xyz, w>>))

\* Vec4::from((xy, z, w))
Vec4FromTriple ==
    /\ vpc = "start"
    /\ \E xy \in Vecs(2), z \in Scalars, w \in Scalars :
          VecStep("extended", "vec4_from_triple", <<xy, z, w>>,
                  Vec4_from_triple(<<xy, z, w>>))

\* vec3!(xy, z), vec4!(xyz, w), vec4!(xy, z, w)
VecMacroExtend ==
    /\ vpc = "start"
    /\ \/ \E xy \in Vecs(2), z \in Scalars :
             VecStep("extended", "vec3_from_pair", <<xy, z>>,
                     Vec_macro(3, <<xy, z>>))
       \/ \E xyz \in Vecs(3), w \in Scalars :
             VecStep("extended", "vec4_from_pair", <<xyz, w>>,
                     Vec_macro(4, <<xyz, w>>))
       \/ \E xy \in Vecs(2), z \in Scalars, w \in Scalars :
             VecStep("extended", "vec4_from_triple", <<xy, z, w>>,
                     Vec_macro(4, <<xy, z, w>>))

\* wide.xy(): the arguments become the conversion that built wide, wide,
\* and the arguments of that conversion.
Xy ==
    /\ vpc = "extended"
    /\ VecStep("narrowed", "xy", <<vop, vres>> \o vargs, Vec_xy(vres))

\* wide.xyz() of a Vec4
Xyz ==
    /\ vpc = "extended"
    /\ vop \in {"vec4_from_pair", "vec4_from_triple"}
    /\ VecStep("narrowed", "xyz", <<vop, vres>> \o vargs, Vec4_xyz(vres))

\* Argument lists of the vector macros: none, one scalar, or n scalars.
MacroArgs(n) ==
    {<<>>} \cup {<<x>> : x \in Scalars}
    \cup {[k \in 1..n |-> R(o + d * k)] : o \in 0..MaxVec, d \in 1..MaxVec}

\* vec2!(..), vec3!(..), vec4!(..)
VecMacro ==
    /\ vpc = "start"
    /\ \E n \in Dims : \E args \in MacroArgs(n) :
          VecStep("built", "vec_macro", <<n, args>>, Vec_macro(n, args))

\* Vec2::from(s), Vec3::from(s), Vec4::from(s)
VecFromScalar ==
    /\ vpc = "start"
    /\ \E n \in Dims, x \in Scalars :
          VecStep("built", "vec_from_scalar", <<n, x>>, Vec_from_scalar(n, x))

\* mat2!(..), mat3!(..), mat4!(..)
MatMacro ==
    /\ vpc = "start"
    /\ \E n \in Dims : \E args \in {<<>>} \cup NewArgs(n) :
          VecStep("built", "mat_macro", <<n, args>>, Mat_macro(n, args))

\* Mat2::from(s), Mat3::from(s), Mat4::from(s)
MatFromScalar ==
    /\ vpc = "start"
    /\ \E n \in Dims, x \in Scalars :
          VecStep("built", "mat_from_scalar", <<n, x>>, Mat_from_scalar(n, x))

\* Scalars that multiply and divide: k is 0, 1, -1 or larger.
Factors == {R(i) : i \in (-MaxAbs)..(MaxAbs + 1)}
Divisors == Factors \ {Zero}

\* k * x, by impl_vector! and by vec3.rs / vec4.rs
ScalarMulVec ==
    /\ vpc = "start"
    /\ \E n \in Dims, k \in Factors : \E x \in Vecs(n) :
          \/ VecStep("scaled", "base_mul_vec", <<n, k, x>>,
                     Base_mul_vec(n, k, x))
          \/ /\ n \in {3, 4}
             /\ VecStep("scaled", "plain_mul_left", <<n, k, x>>,
                        Plain_mul_left(n, k, x))

\* x * k, by impl_vector! and by vec3.rs / vec4.rs
VecMulScalar ==
    /\ vpc = "start"
    /\ \E n \in Dims, k \in Factors : \E x \in Vecs(n) :
          \/ VecStep("scaled", "vec_mul_base", <<n, k, x>>,
                     Vec_mul_base(n, x, k))
          \/ /\ n \in {3, 4}
             /\ VecStep("scaled", "plain_mul", <<n, k, x>>,
                        Plain_mul(n, x, k))

\* x / k, by impl_vector! and by vec3.rs / vec4.rs
VecDivScalar ==
    /\ vpc = "start"
    /\ \E n \in Dims, k \in Divisors : \E x \in Vecs(n) :
          \/ VecStep("scaled", "vec_div_base", <<n, k, x>>,
                     Vec_div_base(n, x, k))
          \/ /\ n \in {3, 4}
             /\ VecStep("scaled", "plain_div", <<n, k, x>>,
                        Plain_div(n, x, k))

\* k / x, offered by vec3.rs / vec4.rs only
ScalarDivVec ==
    /\ vpc = "start"
    /\ \E n \in {3, 4}, k \in Divisors : \E x \in Vecs(n) :
          VecStep("scaled", "plain_div_left", <<n, k, x>>,
                  Plain_div_left(n, k, x))

\* m * k
MatMulScalar ==
    /\ vpc = "start"
    /\ \E n \in Dims, k \in Factors : \E m \in RhsMats(n) :
          VecStep("scaled", "mat_mul_base", <<n, k, m>>, Mat_mul_base(n, m, k))

\* k * m
ScalarMulMat ==
    /\ vpc = "start"
    /\ \E n \in Dims, k \in Factors : \E m \in RhsMats(n) :
          VecStep("scaled", "base_mul_mat", <<n, k, m>>, Base_mul_mat(n, k, m))

\* Argument lists of the vec3! of lib.rs.
LibMacroArgs ==
    MacroArgs(3) \cup {<<xy, z>> : xy \in Vecs(2), z \in {R(MaxAbs + 1)}}

\* Right operands of the Vec3 sums and differences of lib.rs.
LibVec3s == {Lib_vec3_macro(args) : args \in MacroArgs(3)}

\* vec3!(..) of lib.rs: the arguments become no operation yet and the way
\* the first Vec3 was made.
LibVec3Macro ==
    /\ vpc = "start"
    /\ \E args \in LibMacroArgs :
          VecStep("hom", "lib_vec3_macro", <<0, "lib_vec3_macro", args>>,
                  Lib_vec3_macro(args))

\* Vec3::from(vec4) of lib.rs
LibVec3FromVec4 ==
    /\ vpc = "start"
    /\ \E vec4 \in Vecs(4) :
          VecStep("hom", "lib_vec3_from_vec4",
                  <<0, "lib_vec3_from_vec4", vec4>>,
                  Lib_vec3_from_vec4(vec4))

\* One more operation on the Vec3: the count of operations goes up.
LibStep(name, r) ==
    VecStep("hom", name, <<vargs[1] + 1, vargs[2], vargs[3]>>, r)

\* vres + k and vres - k
LibVec3Scalar ==
    /\ vpc = "hom"
    /\ vargs[1] < MaxOps
    /\ \E k \in Scalars :
          \/ LibStep("lib_vec3_add_scalar", Lib_vec3_add_scalar(vres, k))
          \/ LibStep("lib_vec3_sub_scalar", Lib_vec3_sub_scalar(vres, k))

\* vres + rhs and vres - rhs
LibVec3Vec3 ==
    /\ vpc = "hom"
    /\ vargs[1] < MaxOps
    /\ \E rhs \in LibVec3s :
          \/ LibStep("lib_vec3_add", Lib_vec3_add(vres, rhs))
          \/ LibStep("lib_vec3_sub", Lib_vec3_sub(vres, rhs))

\* Operands of the cross product.
CrossVecs == Vecs(3) \cup Axes \cup Translations \cup Scales

\* lhs.cross(rhs) of vec.rs
Cross ==
    /\ vpc = "start"
    /\ \E lhs \in CrossVecs, rhs \in CrossVecs :
          VecStep("crossed", "vec3_cross", <<lhs, rhs>>, Vec3_cross(lhs, rhs))

\* lhs.cross(rhs) of vec3.rs
PlainCross ==
    /\ vpc = "start"
    /\ \E lhs \in CrossVecs, rhs \in CrossVecs :
          VecStep("crossed", "plain_cross", <<lhs, rhs>>, Plain_cross(lhs, rhs))

VecNext ==
    \/ Cross
    \/ PlainCross
    \/ LibVec3Macro
    \/ LibVec3FromVec4
    \/ LibVec3Scalar
    \/ LibVec3Vec3
    \/ Vec3FromPair
    \/ Vec4FromPair
    \/ Vec4FromTriple
    \/ VecMacroExtend
    \/ Xy
    \/ Xyz
    \/ VecMacro
    \/ VecFromScalar
    \/ MatMacro
    \/ MatFromScalar
    \/ ScalarMulVec
    \/ VecMulScalar
    \/ VecDivScalar
    \/ ScalarDivVec
    \/ MatMulScalar
    \/ ScalarMulMat

VecSpec == VecInit /\ [][VecNext]_vars

(***************************************************************************)
(* Properties.                                                             *)
(***************************************************************************)
\* The argument new() received for the field named m<i-1><j-1>.
Arg(i, j) == cargs[(i - 1) * dim + j]

\* Component i of a vector struct.
Comp(x, i) == x[VecFieldName[i]]

\* The product of lhs and rhs commutes.
Commute(n, lhs, rhs) == Mat_mul(n, lhs, rhs) = Mat_mul(n, rhs, lhs)

\* C1: for the matrices A, B of a product A * B and every vector x of the
\* matching width, (A * B) * x equals A * (B * x): the right operand of a
\* matrix product is applied first.
C1_ProductAppliesRightOperandFirst ==
    (pc = "done" /\ op = "mul") =>
        \A x \in Vecs(dim) :
            Mat_mul_vec(dim, res.val, x)
                = Mat_mul_vec(dim, a, Mat_mul_vec(dim, b, x))

\* C1 witness: a product of two matrices that do not commute was formed.
C1_Witness ==
    /\ pc = "done"
    /\ op = "mul"
    /\ ~Commute(dim, a, b)
    /\ \E x \in Vecs(dim) : Mat_mul_vec(dim, res.val, x) # x

\* C2: identity() * x equals x, for the field-struct matrices and for the
\* tuple-wrapped matrices.
C2_IdentityTimesVector ==
    /\ (pc = "done" /\ ctor = "identity"
            /\ op \in {"mul_vec", "wrapped_mul_vec"}) => res.val = v
    /\ (pc = "done" /\ op = "wrapped_mul_vec") =>
            Wrapped_mul_vec(dim, Wrapped_identity(dim), v) = v

\* C2 witness: the identity was multiplied with a vector whose components
\* differ.
C2_Witness ==
    /\ pc = "done"
    /\ ctor = "identity"
    /\ op = "mul_vec"
    /\ Comp(v, 1) # Comp(v, 2)

\* C3 as stated: the argument new() takes for m_rc is the entry at row r,
\* column c: component r of new(..) * x is the sum over c of m_rc * x_c.
C3_ArgumentIsRowColumn ==
    (pc = "done" /\ ctor = "new" /\ op = "mul_vec") =>
        \A r \in 1..dim :
            Comp(res.val, r)
                = RSum([c \in 1..dim |-> RMul(Arg(r, c), Comp(v, c))])

\* C3 amended: the argument new() takes for m_rc is the entry at column r,
\* row c (the struct is stored column by column): component r of
\* new(..) * x is the sum over c of m_cr * x_c.
C3_ArgumentIsColumnRow ==
    (pc = "done" /\ ctor = "new" /\ op = "mul_vec") =>
        \A r \in 1..dim :
            Comp(res.val, r)
                = RSum([c \in 1..dim |-> RMul(Arg(c, r), Comp(v, c))])

\* C3 witness: a matrix built by new() whose arguments are not symmetric
\* was multiplied with a vector, and the two readings of the arguments give
\* different products.
C3_Witness ==
    /\ pc = "done"
    /\ ctor = "new"
    /\ op = "mul_vec"
    /\ \E r \in 1..dim :
          RSum([c \in 1..dim |-> RMul(Arg(r, c), Comp(v, c))])
            # RSum([c \in 1..dim |-> RMul(Arg(c, r), Comp(v, c))])

\* Term k of the banded product: x_k scaled by the band entry of row i.
BandTerm(i, k) ==
    IF k < 1 \/ k > dim THEN Zero
    ELSE RMul(cargs[k - i + 2], Comp(v, k))

\* C4: component i of tridiagonal(lo, di, up) * x equals
\* lo * x[i-1] + di * x[i] + up * x[i+1], out-of-range terms omitted: lo is
\* immediately below the diagonal, up immediately above it.
C4_TridiagonalBands ==
    (pc = "done" /\ ctor = "tridiagonal" /\ op = "mul_vec") =>
        \A i \in 1..dim :
            Comp(res.val, i)
                = RSum(<<BandTerm(i, i - 1), BandTerm(i, i), BandTerm(i, i + 1)>>)

\* Every field of the matrix struct is zero.
IsZeroMat(n, s) == \A f \in MatFieldSet(n) : s[f] = Zero

\* C5: try_invert() returns None exactly when determinant() is zero and
\* Some(inverse) otherwise; the zero matrix yields None and the identity
\* yields Some(identity).
C5_TryInvertNoneIffSingular ==
    /\ (pc = "done" /\ op = "try_invert") =>
          /\ res.kind \in {"None", "Some"}
          /\ (res.kind = "None") <=> (Mat_determinant(dim, a) = Zero)
          /\ res.kind = "Some" => Mat_mul(dim, a, res.val) = Mat_identity(dim)
          /\ IsZeroMat(dim, a) => res.kind = "None"
          /\ a = Mat_identity(dim) => res = Some(Mat_identity(dim))
    /\ (pc = "done" /\ op = "wrapped_try_invert") =>
          /\ res.kind \in {"None", "Some"}
          /\ (res.kind = "None")
                <=> (Cg_determinant(dim, Wrapped(dim, a)) = Zero)
          /\ res.kind = "Some" =>
                Cg_mul(dim, Wrapped(dim, a), res.val) = Wrapped_identity(dim)

\* C5 witness: try_invert() returned None for a singular matrix that is not
\* the zero matrix.
C5_Witness ==
    /\ pc = "done"
    /\ op = "try_invert"
    /\ res.kind = "None"
    /\ ~IsZeroMat(dim, a)

\* C6: inverse() (invert() of the wrapped types) panics exactly when
\* try_invert() returns None and otherwise returns the value inside
\* try_invert()'s Some; there is no other outcome.
C6_InversePanicsIffNone ==
    /\ (pc = "done" /\ op = "inverse") =>
          LET t == Mat_try_invert(dim, a)
          IN  /\ res.kind \in {"Panic", "Mat"}
              /\ (res.kind = "Panic") <=> (t.kind = "None")
              /\ res.kind = "Mat" => (t.kind = "Some" /\ res.val = t.val)
    /\ (pc = "done" /\ op = "wrapped_invert") =>
          LET t == Wrapped_try_invert(dim, Wrapped(dim, a))
          IN  /\ res.kind \in {"Panic", "Mat"}
              /\ (res.kind = "Panic") <=> (t.kind = "None")
              /\ res.kind = "Mat" => (t.kind = "Some" /\ res.val = t.val)

\* C6 witness: inverse() panicked.
C6_Witness ==
    /\ pc = "done"
    /\ op = "inverse"
    /\ res.kind = "Panic"

\* C7: for a matrix M with nonzero determinant inverse() returns a matrix
\* and M * M.inverse() is the identity.
C7_TimesInverseIsIdentity ==
    (pc = "done" /\ op = "inverse" /\ Mat_determinant(dim, a) # Zero) =>
        /\ res.kind = "Mat"
        /\ Mat_mul(dim, a, res.val) = Mat_identity(dim)

\* C7 witness: inverse() returned a matrix that is not symmetric and has an
\* entry that is not an integer.
C7_Witness ==
    /\ pc = "done"
    /\ op = "inverse"
    /\ res.kind = "Mat"
    /\ \E f \in MatFieldSet(dim) : res.val[f][2] # 1
    /\ Mat_transpose(dim, res.val) # res.val

\* C8: for a matrix M with nonzero determinant, inverse() does not panic
\* on M.inverse(), and M.inverse().inverse() equals M.
C8_InverseOfInverse ==
    (pc = "done" /\ op = "inverse" /\ Mat_determinant(dim, a) # Zero) =>
        /\ res.kind = "Mat"
        /\ Mat_inverse(dim, res.val) = Value("Mat", a)

\* C8 witness: inverse() returned a matrix other than its argument, for a
\* determinant other than 1 and -1.
C8_Witness ==
    /\ pc = "done"
    /\ op = "inverse"
    /\ res.kind = "Mat"
    /\ res.val # a
    /\ Abs(Mat_determinant(dim, a)[1]) > 1

\* C9: transpose() only permutes fields: field m_rc of the result is field
\* m_cr of the argument (the diagonal is unchanged), and transposing the
\* result gives the argument back.
C9_TransposePermutesFields ==
    (pc = "done" /\ op = "transpose") =>
        /\ \A r \in 1..dim, c \in 1..dim :
              res.val[FieldName[r][c]] = a[FieldName[c][r]]
        /\ Mat_transpose(dim, res.val) = a

\* C9 witness: a matrix that is not symmetric was transposed.
C9_Witness ==
    /\ pc = "done"
    /\ op = "transpose"
    /\ res.val # a

\* C10: an array converted into a vector, matrix or quaternion with From
\* and back with Into is the same array, element for element.
C10_ArrayRoundTrip ==
    (cpc = "into") => cout = carr

\* C10 witness: an array of four distinct elements went into a quaternion
\* and back.
C10_Witness ==
    /\ cpc = "into"
    /\ cty = "Quat"
    /\ Cardinality({carr[k] : k \in 1..4}) = 4

\* C11: a single-precision vector converted to double precision and back is
\* the same vector (the widened vector holds the same values), and
\* converting a double-precision vector to single precision always returns
\* a single-precision vector: its components are values of f32 (finite,
\* infinite or NaN).
C11_WideningRoundTrip ==
    /\ (fpc = "wide") => fmid = fin
    /\ (fpc = "back") => fout = fin
    /\ (fpc = "narrow") =>
          \A f \in VecFieldSet(fdim) : fout[f] \in Floats(F32)

\* C11 witness: a vector with a component that is not an integer went to
\* double precision and back.
C11_Witness ==
    /\ fpc = "back"
    /\ \E f \in VecFieldSet(fdim) : fin[f][2] > 1

\* The least normal value of the format.
MinNormal(fmt) == Pow2(fmt.p - 1 + fmt.qmin)

\* The vector s is finite and not zero.
IsNonZero(n, s) ==
    /\ \A f \in VecFieldSet(n) : IsFinite(s[f])
    /\ \E f \in VecFieldSet(n) : s[f] # Zero

\* The square of every non-zero component of s is a finite normal value:
\* the squared length of s neither overflows nor underflows.
IsInRange(fmt, n, s) ==
    /\ IsNonZero(n, s)
    /\ IsFinite(Vec_squared_length(fmt, n, s))
    /\ \A f \in VecFieldSet(n) :
          s[f] # Zero => RLeq(MinNormal(fmt), FMul(fmt, s[f], s[f]))

\* x and y are approximately equal under k default epsilons.
Near(fmt, x, y, k) ==
    Relative_eq(fmt, x, y, RMul(R(k), Epsilon(fmt)), RMul(R(k), Epsilon(fmt)))

IsZeroVec(n, s) == \A f \in VecFieldSet(n) : s[f] = Zero

HamiltonProduct(lhs, rhs) ==
    Quat_new(
        RSub(RAdd(RAdd(RMul(lhs.s, rhs.x), RMul(lhs.x, rhs.s)),
                  RMul(lhs.y, rhs.z)), RMul(lhs.z, rhs.y)),
        RSub(RAdd(RAdd(RMul(lhs.s, rhs.y), RMul(lhs.y, rhs.s)),
                  RMul(lhs.z, rhs.x)), RMul(lhs.x, rhs.z)),
        RSub(RAdd(RAdd(RMul(lhs.s, rhs.z), RMul(lhs.z, rhs.s)),
                  RMul(lhs.x, rhs.y)), RMul(lhs.y, rhs.x)),
        RSub(RSub(RSub(RMul(lhs.s, rhs.s), RMul(lhs.x, rhs.x)),
                  RMul(lhs.y, rhs.y)), RMul(lhs.z, rhs.z)))

\* C14: the product a * b of two unit quaternions is their Hamilton
\* product, and rotating a vector v by a * b is rotating v by b and then
\* by a.
C14_MulIsHamiltonProduct ==
    /\ (qctor = "mul") => qval = HamiltonProduct(qargs[1], qargs[2])
    /\ (qctor = "mul" /\ qpc = "rotated") =>
          qrot = Quat_rotate(qargs[1], Quat_rotate(qargs[2], qvec))

\* The vector x is a basis axis: one component is 1, the others are 0.
IsBasisAxis(x) ==
    \E p \in 1..3 : x = Vec_new(3, [k \in 1..3 |-> IF k = p THEN One ELSE Zero])

\* C15: for a basis axis e and every angle, axis_angle(e, angle) rotates e
\* to e.
C15_AxisIsFixedPoint ==
    (qctor = "axis_angle" /\ qpc = "rotated" /\ IsBasisAxis(qargs[1])
        /\ qvec = qargs[1]) => qrot = qvec

\* C15 witness: a basis axis was rotated about itself by an angle that is
\* not a multiple of a quarter turn.
C15_Witness ==
    /\ qctor = "axis_angle"
    /\ qpc = "rotated"
    /\ IsBasisAxis(qargs[1])
    /\ qvec = qargs[1]
    /\ qargs[2][2] = 1
    /\ qval.s \notin {One, RNeg(One)}

AxisX == Vec_new(3, <<One, Zero, Zero>>)
AxisY == Vec_new(3, <<Zero, One, Zero>>)
AxisZ == Vec_new(3, <<Zero, Zero, One>>)

\* C16: axis_angle((1, 0, 0), PI/2) rotates (0, 1, 0) to (0, 0, 1), and
\* axis_angle((1, 0, 0), PI) rotates (0, 1, 0) to (0, -1, 0).
C16_QuarterTurnIsRightHanded ==
    (qctor = "axis_angle" /\ qpc = "rotated" /\ qargs[1] = AxisX
        /\ qvec = AxisY) =>
        /\ qargs[2] = <<1, 0>> => qrot = AxisZ
        /\ qargs[2] = <<2, 0>> => qrot = Vec_new(3, <<Zero, R(-1), Zero>>)

\* C16 witness: +Y was rotated by a quarter turn about +X, by a quaternion
\* whose parts hold sqrt(2) / 2.
C16_Witness ==
    /\ qctor = "axis_angle"
    /\ qpc = "rotated"
    /\ qargs = <<AxisX, <<1, 0>>>>
    /\ qval = Quat_new(HalfSqrt2, Zero, Zero, HalfSqrt2)
    /\ qvec = AxisY

\* C17: euler(angles) is roll * pitch * yaw, with roll the rotation about Z
\* by angles.z, pitch the rotation about X by angles.x and yaw the rotation
\* about Y by angles.y; it rotates a vector by yaw, then pitch, then roll.
C17_EulerIsRollPitchYaw ==
    (qctor = "euler") =>
        LET angles == qargs[1]
            roll == Quat_axis_angle(AxisZ, angles.z)
            pitch == Quat_axis_angle(AxisX, angles.x)
            yaw == Quat_axis_angle(AxisY, angles.y)
        IN  /\ qval = HamiltonProduct(HamiltonProduct(roll, pitch), yaw)
            /\ qpc = "rotated" =>
                  qrot = Quat_rotate(roll,
                             Quat_rotate(pitch, Quat_rotate(yaw, qvec)))

\* The point p of three components with a fourth component of 1.
Homogeneous(p) == Vec_new(4, <<p.x, p.y, p.z, One>>)

\* r.rotate(s * p) + t, with s * p taken component by component.
TrsApply(x, p) ==
    LET scaled == Vec_new(3, <<RMul(x.s.x, p.x), RMul(x.s.y, p.y),
                               RMul(x.s.z, p.z)>>)
        turned == Quat_rotate(x.r, scaled)
    IN  Vec_new(3, <<RAdd(turned.x, x.t.x), RAdd(turned.y, x.t.y),
                     RAdd(turned.z, x.t.z)>>)

\* C18: matrix() of a Trs scales, then rotates, then translates: for every
\* point p, matrix() * (p, 1) is (r.rotate(s * p) + t, 1); the Trs with
\* t = (1, 0, 0), the identity rotation and s = (2, 2, 2) maps (1, 0, 0, 1)
\* to (3, 0, 0, 1).
C18_MatrixIsTranslateRotateScale ==
    (qpc = "matrix") =>
        /\ \A p \in RotVecs :
              Mat_mul_vec(4, tmat, Homogeneous(p)) = Homogeneous(TrsApply(trs, p))
        /\ (trs = Trs_new(AxisX, Quat_identity,
                          Vec_new(3, <<R(2), R(2), R(2)>>))) =>
              Mat_mul_vec(4, tmat, Homogeneous(AxisX))
                  = Vec_new(4, <<R(3), Zero, Zero, One>>)

\* C18 witness: the matrix of a Trs with a translation, a rotation that
\* moves every basis axis and a non-uniform scale was taken.
C18_Witness ==
    /\ qpc = "matrix"
    /\ trs.t # Vec_zero(3)
    /\ trs.s.x # trs.s.y
    /\ \A e \in {AxisX, AxisY, AxisZ} : Quat_rotate(trs.r, e) # e
    /\ \E p \in RotVecs : Mat_mul_vec(4, tmat, Homogeneous(p)) # Homogeneous(p)

\* C19: Trs::identity() has the translation (0, 0, 0), the rotation
\* (0, 0, 0; 1) and the scale (1, 1, 1), and its matrix() is the identity
\* matrix: 1 on the diagonal, 0 elsewhere.
C19_TrsIdentity ==
    (qctor = "trs_identity") =>
        /\ trs.t = Vec_new(3, <<Zero, Zero, Zero>>)
        /\ trs.r = Quat_new(Zero, Zero, Zero, One)
        /\ trs.s = Vec_new(3, <<One, One, One>>)
        /\ qpc = "matrix" =>
              \A r \in 1..4, c \in 1..4 :
                  tmat[FieldName[r][c]] = IF r = c THEN One ELSE Zero

\* C19 witness: the matrix of Trs::identity() was taken.
C19_Witness ==
    /\ qctor = "trs_identity"
    /\ qpc = "matrix"
    /\ tmat.m33 = One

\* C20: a matrix converted to a larger size is the top-left block of the
\* result, whose added entries are 1 on the diagonal and 0 elsewhere; a
\* matrix converted to a smaller size leaves its top-left block; a matrix
\* converted to a larger size and back (Mat2 -> Mat3 -> Mat2,
\* Mat2 -> Mat4 -> Mat2, Mat3 -> Mat4 -> Mat3) is the same matrix.
C20_ResizeKeepsTopLeftBlock ==
    /\ (pc = "done" /\ op \in ResizeOps) =>
          LET n == ResizeDim(op)
          IN  /\ DOMAIN res.val = MatFieldSet(n)
              /\ \A r \in 1..n, c \in 1..n :
                    res.val[FieldName[r][c]] =
                        IF r <= dim /\ c <= dim THEN a[FieldName[r][c]]
                        ELSE IF r = c THEN One ELSE Zero
    /\ (pc = "back" /\ ResizeDim(op) > dim) => res.val = a

\* C20 witness: a Mat2 that is neither symmetric nor the identity went to
\* Mat4 and back.
C20_Witness ==
    /\ pc = "back"
    /\ dim = 2
    /\ op = "mat4_from"
    /\ a.m01 # a.m10
    /\ a.m00 # One
    /\ res.val = a

\* The arguments of the conversion that built the narrowed vector.
Built == SubSeq(vargs, 3, Len(vargs))

\* C21: extending stores the narrower vector in the leading fields and the
\* supplied z / w in the z / w fields; narrowing with xy() / xyz() keeps
\* the leading fields and drops the trailing ones; extending and then
\* narrowing returns the vector that was extended.
C21_ExtendThenNarrow ==
    /\ (vpc = "extended" /\ vop = "vec3_from_pair") =>
          vres = [x |-> vargs[1].x, y |-> vargs[1].y, z |-> vargs[2]]
    /\ (vpc = "extended" /\ vop = "vec4_from_pair") =>
          vres = [x |-> vargs[1].x, y |-> vargs[1].y, z |-> vargs[1].z,
                  w |-> vargs[2]]
    /\ (vpc = "extended" /\ vop = "vec4_from_triple") =>
          vres = [x |-> vargs[1].x, y |-> vargs[1].y, z |-> vargs[2],
                  w |-> vargs[3]]
    /\ (vpc = "narrowed" /\ vop = "xy") =>
          /\ vres = [x |-> vargs[2].x, y |-> vargs[2].y]
          /\ vargs[1] \in {"vec3_from_pair", "vec4_from_triple"} =>
                vres = Built[1]
    /\ (vpc = "narrowed" /\ vop = "xyz") =>
          /\ vres = [x |-> vargs[2].x, y |-> vargs[2].y, z |-> vargs[2].z]
          /\ vargs[1] = "vec4_from_pair" => vres = Built[1]

\* C21 witness: a Vec3 of three different components was extended by a w
\* different from all of them and narrowed again with xyz().
C21_Witness ==
    /\ vpc = "narrowed"
    /\ vop = "xyz"
    /\ vargs[1] = "vec4_from_pair"
    /\ Cardinality({vargs[2].x, vargs[2].y, vargs[2].z, vargs[2].w}) = 4
    /\ vres = Built[1]

\* C22: a vector macro with no argument gives the zero vector and a matrix
\* macro with no argument the identity; one scalar s gives the vector with
\* every component s and the matrix with s on the diagonal and 0
\* elsewhere; the full argument list gives the value whose fields, in
\* declaration order, are the arguments in the order given.
C22_ConstructionByArgumentCount ==
    /\ (vpc = "built" /\ vop = "vec_macro") =>
          LET n == vargs[1]
              args == vargs[2]
          IN  /\ DOMAIN vres = VecFieldSet(n)
              /\ \A i \in 1..n :
                    Comp(vres, i) = IF Len(args) = 0 THEN Zero
                                    ELSE IF Len(args) = 1 THEN args[1]
                                    ELSE args[i]
    /\ (vpc = "built" /\ vop = "vec_from_scalar") =>
          /\ DOMAIN vres = VecFieldSet(vargs[1])
          /\ \A i \in 1..vargs[1] : Comp(vres, i) = vargs[2]
    /\ (vpc = "built" /\ vop = "mat_macro") =>
          LET n == vargs[1]
              args == vargs[2]
          IN  /\ DOMAIN vres = MatFieldSet(n)
              /\ \A r \in 1..n, c \in 1..n :
                    vres[FieldName[r][c]] =
                        IF Len(args) = 0 THEN (IF r = c THEN One ELSE Zero)
                        ELSE args[(r - 1) * n + c]
    /\ (vpc = "built" /\ vop = "mat_from_scalar") =>
          LET n == vargs[1]
          IN  /\ DOMAIN vres = MatFieldSet(n)
              /\ \A r \in 1..n, c \in 1..n :
                    vres[FieldName[r][c]] = IF r = c THEN vargs[2] ELSE Zero

\* C22 witness: a Mat3 was built from one scalar other than 0 and 1.
C22_Witness ==
    /\ vpc = "built"
    /\ vop = "mat_from_scalar"
    /\ vargs[1] = 3
    /\ vargs[2] \notin {Zero, One}
    /\ vres.m11 = vargs[2]

\* Every field of the struct x multiplied by k, and divided by k.
Scaled(x, k) == [f \in DOMAIN x |-> RMul(x[f], k)]
Divided(x, k) == [f \in DOMAIN x |-> RDiv(x[f], k)]

\* C23: for a vector x and a scalar k, k * x and x * k are the same vector,
\* every component of x multiplied by k; where k / x is offered (the Vec3
\* and Vec4 of vec3.rs and vec4.rs) it is the same vector as x / k, every
\* component of x divided by k; for a matrix m, k * m and m * k are the
\* same matrix, every field of m multiplied by k.
C23_ScalarOnEitherSide ==
    (vpc = "scaled") =>
        LET n == vargs[1]
            k == vargs[2]
            x == vargs[3]
        IN  /\ vop \in {"base_mul_vec", "plain_mul_left"} =>
                  /\ vres = Scaled(x, k)
                  /\ vres = Vec_mul_base(n, x, k)
                  /\ n \in {3, 4} => vres = Plain_mul(n, x, k)
            /\ vop \in {"vec_mul_base", "plain_mul"} =>
                  /\ vres = Scaled(x, k)
                  /\ vres = Base_mul_vec(n, k, x)
                  /\ n \in {3, 4} => vres = Plain_mul_left(n, k, x)
            /\ vop = "plain_div_left" =>
                  /\ vres = Divided(x, k)
                  /\ vres = Plain_div(n, x, k)
                  /\ vres = Vec_div_base(n, x, k)
            /\ vop \in {"vec_div_base", "plain_div"} =>
                  /\ vres = Divided(x, k)
                  /\ n \in {3, 4} => vres = Plain_div_left(n, k, x)
            /\ vop = "base_mul_mat" =>
                  /\ vres = Scaled(x, k)
                  /\ vres = Mat_mul_base(n, x, k)
            /\ vop = "mat_mul_base" =>
                  /\ vres = Scaled(x, k)
                  /\ vres = Base_mul_mat(n, k, x)

\* C23 witness: a scalar k other than 0, 1 and -1 was divided by a Vec3
\* with a component that k does not divide, and the result is not k
\* divided by the components.
C23_Witness ==
    /\ vpc = "scaled"
    /\ vop = "plain_div_left"
    /\ vargs[1] = 3
    /\ vargs[2] \notin {Zero, One, RNeg(One)}
    /\ \E f \in VecFieldSet(3) : vres[f][2] # 1
    /\ vres # Plain_div_left_reciprocal(3, vargs[2], vargs[3])

\* Epsilons and tolerances handed to relative_eq: the default and four
\* times the default.
Tolerances == {Epsilon(F32), RMul(R(4), Epsilon(F32))}

\* Every pair of matching scalar fields of the structs x and y is
\* approximately equal.
FieldsNear(x, y, e, m) ==
    \A f \in DOMAIN x : Relative_eq(F32, x[f], y[f], e, m)

\* For two vectors, two quaternions and two Trs values, relative_eq holds
\* exactly when it holds for every pair of matching scalar fields, under
\* every epsilon and tolerance.
FieldWise ==
    /\ (fpc = "vec_eq") =>
          /\ fout = FieldsNear(fin, fmid, Epsilon(F32), Epsilon(F32))
          /\ \A e \in Tolerances, m \in Tolerances :
                /\ Vec_relative_eq(F32, fdim, fin, fmid, e, m)
                      = FieldsNear(fin, fmid, e, m)
                /\ Plain_relative_eq(F32, fdim, fin, fmid, e, m)
                      = FieldsNear(fin, fmid, e, m)
    /\ (fpc = "quat_eq") =>
          /\ fout = FieldsNear(AsQuat(fin), fmid, Epsilon(F32), Epsilon(F32))
          /\ \A e \in Tolerances, m \in Tolerances :
                Quat_relative_eq(F32, AsQuat(fin), fmid, e, m)
                    = FieldsNear(AsQuat(fin), fmid, e, m)
    /\ (fpc = "trs_eq") =>
          LET x == AsTrs(fin)
              near(e, m) == /\ FieldsNear(x.t, fmid.t, e, m)
                            /\ FieldsNear(x.r, fmid.r, e, m)
                            /\ FieldsNear(x.s, fmid.s, e, m)
          IN  /\ fout = near(Epsilon(F32), Epsilon(F32))
              /\ \A e \in Tolerances, m \in Tolerances :
                    Trs_relative_eq(F32, x, fmid, e, m) = near(e, m)

\* The value compared with itself.
Self ==
    CASE fpc = "vec_eq" -> fin
      [] fpc = "quat_eq" -> AsQuat(fin)
      [] fpc = "trs_eq" -> AsTrs(fin)

\* No scalar field of the compared value is NaN.
NoNaN == \A f \in DOMAIN fin : fin[f] # NaN

\* C24 as stated: approximate equality holds exactly when it holds for
\* every pair of matching scalar fields, and every value is approximately
\* equal to itself.
C24_FieldWiseAndReflexive ==
    /\ FieldWise
    /\ (fpc \in {"vec_eq", "quat_eq", "trs_eq"} /\ fmid = Self) => fout

\* C24 amended: approximate equality holds exactly when it holds for every
\* pair of matching scalar fields; a value none of whose scalar fields is
\* NaN is approximately equal to itself, and a value with a NaN field is
\* not.
C24_FieldWiseAndReflexiveWithoutNaN ==
    /\ FieldWise
    /\ (fpc \in {"vec_eq", "quat_eq", "trs_eq"} /\ fmid = Self) =>
          (fout <=> NoNaN)

\* C24 witness: two quaternions that differ in the last field s only were
\* compared, and are not approximately equal.
C24_Witness ==
    /\ fpc = "quat_eq"
    /\ \A f \in {"x", "y", "z"} : fmid[f] = fin[f]
    /\ fmid.s # fin.w
    /\ NoNaN
    /\ fout = FALSE

AsTrsOf(x) ==
    Trs_new(Vec_new(3, <<x.translation.x, x.translation.y, x.translation.z>>),
            Quat_new(x.rotation.vector.x, x.rotation.vector.y,
                     x.rotation.vector.z, x.rotation.scalar),
            Vec_new(3, <<x.scale.x, x.scale.y, x.scale.z>>))

\* C26: matrix() of a Transform3 is the matrix of the translation, the
\* rotation by the quaternion (rotation.vector; rotation.scalar) and the
\* scale: it maps every point p to rotate(scale * p) + translation, and
\* Transform3::identity().matrix() is the identity matrix.
C26_Transform3Matrix ==
    (qpc = "transform3_matrix") =>
        /\ \A p \in RotVecs :
              Mat_mul_vec(4, tmat, Homogeneous(p))
                  = Homogeneous(TrsApply(AsTrsOf(trs), p))
        /\ (qctor = "transform3_identity") => tmat = Mat_identity(4)

\* C27: the identity quaternion is the neutral element of the product:
\* identity() * q and q * identity() are q, and q *= identity() leaves q
\* unchanged.
C27_IdentityIsNeutral ==
    (qctor = "mul") =>
        /\ (qargs[1] = Quat_identity) => qval = qargs[2]
        /\ (qargs[2] = Quat_identity) =>
              /\ qval = qargs[1]
              /\ Quat_mul_assign(qargs[1], qargs[2]) = qargs[1]

\* C28: conversion into a larger matrix type preserves products and the
\* identity: MatN::from(a) * MatN::from(b) is MatN::from(a * b) for Mat2
\* into Mat3, Mat2 into Mat4 and Mat3 into Mat4, and MatN::from(identity())
\* is identity().
C28_EmbeddingPreservesProducts ==
    /\ (pc = "done" /\ op \in EmbedMulOps) =>
          res.val = Mat_from_mat(EmbedMulDim(op), dim, Mat_mul(dim, a, b))
    /\ (pc = "done" /\ op \in ResizeOps /\ ResizeDim(op) > dim
            /\ ctor = "identity") =>
          res.val = Mat_identity(ResizeDim(op))

\* C28 witness: two Mat2 that do not commute and are not diagonal were
\* multiplied as Mat4.
C28_Witness ==
    /\ pc = "done"
    /\ op = "mat4_embed_mul"
    /\ dim = 2
    /\ a.m01 # Zero
    /\ a.m10 # Zero
    /\ Mat_mul(2, a, b) # Mat_mul(2, b, a)
    /\ res.val = Mat4_from_mat2(Mat_mul(2, a, b))

\* C29: the array behind as_ref() is the array into() returns, element for
\* element: the fields in declared order, [x, y, z, w] for a vector,
\* [x, y, z, s] for a quaternion and [[m00, m01, ..], [m10, m11, ..], ..]
\* for a matrix.
C29_AsRefAgreesWithInto ==
    (cpc = "as_ref") =>
        /\ cout = Conv_into(cty, cobj)
        /\ cty \in VecTypes =>
              \A i \in 1..Width(cty) : cout[i] = cobj[VecFieldName[i]]
        /\ cty = "Quat" => cout = <<cobj.x, cobj.y, cobj.z, cobj.s>>
        /\ cty \in MatTypes =>
              \A i \in 1..Width(cty), j \in 1..Width(cty) :
                  cout[i][j] = cobj[FieldName[i][j]]

\* C29 witness: the array view of a quaternion with four distinct fields
\* was taken.
C29_Witness ==
    /\ cpc = "as_ref"
    /\ cty = "Quat"
    /\ Cardinality({cobj.x, cobj.y, cobj.z, cobj.s}) = 4
    /\ cout[4] = cobj.s

\* The dot product of the type whose cross product was taken.
DotOf(x, y) == IF vop = "vec3_cross" THEN Vec3_dot(x, y) ELSE Plain_dot(x, y)

\* C30: lhs.cross(rhs) is orthogonal to both operands: its dot product
\* with lhs and with rhs is 0; lhs.cross(lhs) is the zero vector.
C30_CrossIsOrthogonal ==
    (vpc = "crossed") =>
        /\ DotOf(vargs[1], vres) = Zero
        /\ DotOf(vargs[2], vres) = Zero
        /\ (vargs[1] = vargs[2]) => vres = Vec_zero(3)

\* C30 witness: the cross product of two vectors that are not parallel and
\* have no zero component was taken, and no component of it is zero.
C30_Witness ==
    /\ vpc = "crossed"
    /\ \A f \in VecFieldSet(3) :
          /\ vargs[1][f] # Zero
          /\ vargs[2][f] # Zero
          /\ vres[f] # Zero
    /\ DotOf(vargs[1], vres) = Zero
====
